---- MODULE Spec2Model ----
(***************************************************************************)
(* A model of pyodide-lock's lockfile merge engine                         *)
(* (pyodide_lock/spec.py and pyodide_lock/utils.py).                       *)
(*                                                                         *)
(* Text is modelled as a sequence of tokens.  A package name is a sequence *)
(* of one-character strings, so that canonicalize_name really has to       *)
(* lowercase and collapse separator runs.  A platform identifier is a      *)
(* sequence of words and "_" tokens, a version a sequence of numbers, a    *)
(* path a sequence of components, and a file_name a sequence of tokens in  *)
(* which "/" separates components.                                         *)
(***************************************************************************)
EXTENDS Integers, Sequences, FiniteSets, TLC

(***************************************************************************)
(* Bounds of the model.                                                    *)
(***************************************************************************)
MaxBatch == 2

MaxMerges == 2

(***************************************************************************)
(* Generic helpers.                                                        *)
(***************************************************************************)
Range(s) == {s[i] : i \in 1..Len(s)}

SeqsUpTo(S, n) == UNION {[1..k -> S] : k \in 0..n}

IsPrefix(p, s) == Len(p) <= Len(s) /\ SubSeq(s, 1, Len(p)) = p

Last(s) == s[Len(s)]

Front(s) == SubSeq(s, 1, Len(s) - 1)

Orders(S) == {o \in [1..Cardinality(S) -> S] : Range(o) = S}

(***************************************************************************)
(* packaging.utils.canonicalize_name: re.sub(r"[-_.]+", "-", name).lower() *)
(***************************************************************************)
UpperCase == <<"A", "B", "C", "D", "E", "F", "G", "H", "I", "J", "K", "L", "M",
               "N", "O", "P", "Q", "R", "S", "T", "U", "V", "W", "X", "Y", "Z">>

LowerCase == <<"a", "b", "c", "d", "e", "f", "g", "h", "i", "j", "k", "l", "m",
               "n", "o", "p", "q", "r", "s", "t", "u", "v", "w", "x", "y", "z">>

Lower(c) ==
    IF \E i \in 1..Len(UpperCase) : UpperCase[i] = c
    THEN LowerCase[CHOOSE i \in 1..Len(UpperCase) : UpperCase[i] = c]
    ELSE c

IsSeparator(c) == c \in {"-", "_", "."}

RECURSIVE SkipSeparators(_)
SkipSeparators(name) ==
    IF name # <<>> /\ IsSeparator(Head(name))
    THEN SkipSeparators(Tail(name))
    ELSE name

\* faulty variant: lowercases but leaves the separators as they are spelled
RECURSIVE canonicalize_name_keep_separators(_)
canonicalize_name_keep_separators(name) ==
    IF name = <<>> THEN <<>>
    ELSE <<Lower(Head(name))>> \o canonicalize_name_keep_separators(Tail(name))

RECURSIVE canonicalize_name(_)
canonicalize_name(name) ==
    IF name = <<>> THEN <<>>
    ELSE IF IsSeparator(Head(name))
         THEN <<"-">> \o canonicalize_name(SkipSeparators(name))
         ELSE <<Lower(Head(name))>> \o canonicalize_name(Tail(name))

(***************************************************************************)
(* The marker environment (utils.py, _PYODIDE_MARKER_ENV and               *)
(* _get_marker_environment, the branch taken outside pyodide).             *)
(***************************************************************************)
_PYODIDE_MARKER_ENV ==
    [implementation_name            |-> <<"cpython">>,
     implementation_version         |-> <<3, 11, 3>>,
     os_name                        |-> <<"posix">>,
     platform_machine               |-> <<"wasm32">>,
     platform_release               |-> <<"3.1.45">>,
     platform_system                |-> <<"Emscripten">>,
     platform_version               |-> <<"#1">>,
     python_full_version            |-> <<3, 11, 3>>,
     platform_python_implementation |-> <<"CPython">>,
     python_version                 |-> <<3, 11>>,
     sys_platform                   |-> <<"emscripten">>]

\* index of the first "_" of a platform identifier, 0 when there is none
FirstUnderscore(platform) ==
    IF \E i \in 1..Len(platform) : platform[i] = "_"
    THEN CHOOSE i \in 1..Len(platform) :
            platform[i] = "_" /\ \A j \in 1..(i - 1) : platform[j] # "_"
    ELSE 0

\* re.match("([^_]+)_(.*)", platform): group 1 is not empty
PlatformMatches(platform) == FirstUnderscore(platform) > 1

\* packaging.version.parse(python).major and .minor: a release segment that
\* is not given is 0
Major(python) == IF Len(python) >= 1 THEN python[1] ELSE 0

Minor(python) == IF Len(python) >= 2 THEN python[2] ELSE 0

\* index of the last "_" of a platform identifier, 0 when there is none
LastUnderscore(platform) ==
    IF \E i \in 1..Len(platform) : platform[i] = "_"
    THEN CHOOSE i \in 1..Len(platform) :
            platform[i] = "_" /\ \A j \in (i + 1)..Len(platform) : platform[j] # "_"
    ELSE 0

\* faulty variant: the platform identifier is split at its last underscore
_get_marker_environment_split_last(info) ==
    LET u == LastUnderscore(info.platform)
        split == [_PYODIDE_MARKER_ENV EXCEPT
                    !.sys_platform = SubSeq(info.platform, 1, u - 1),
                    !.platform_release =
                        SubSeq(info.platform, u + 1, Len(info.platform))]
        base == IF u > 1 THEN split ELSE _PYODIDE_MARKER_ENV
    IN [base EXCEPT
          !.implementation_version = info.python,
          !.python_full_version = info.python,
          !.python_version = <<Major(info.python), Minor(info.python)>>,
          !.platform_machine = <<info.arch>>]

_get_marker_environment(info) ==
    LET u == FirstUnderscore(info.platform)
        split == [_PYODIDE_MARKER_ENV EXCEPT
                    !.sys_platform = SubSeq(info.platform, 1, u - 1),
                    !.platform_release =
                        SubSeq(info.platform, u + 1, Len(info.platform))]
        base == IF PlatformMatches(info.platform) THEN split
                ELSE _PYODIDE_MARKER_ENV
    IN [base EXCEPT
          !.implementation_version = info.python,
          !.python_full_version = info.python,
          !.python_version = <<Major(info.python), Minor(info.python)>>,
          !.platform_machine = <<info.arch>>]

(***************************************************************************)
(* Markers.  A requirement's marker is NoMarker or one comparison          *)
(* "variable op value".  Marker.evaluate(environment) of packaging          *)
(* evaluates over the given environment, with "extra" set to the empty     *)
(* string when the environment does not give it.                           *)
(***************************************************************************)
NoMarker == [var |-> "", op |-> "", val |-> <<>>]

NoExtra == <<>>

Cmp(var, op, val) == [var |-> var, op |-> op, val |-> val]

RECURSIVE VersionLess(_, _)
VersionLess(a, b) ==
    IF a = <<>> THEN b # <<>>
    ELSE IF b = <<>> THEN FALSE
    ELSE IF Head(a) # Head(b) THEN Head(a) < Head(b)
    ELSE VersionLess(Tail(a), Tail(b))

EnvValue(environment, extra, var) ==
    IF var = "extra" THEN extra ELSE environment[var]

MarkerEvaluate(marker, environment, extra) ==
    LET v == EnvValue(environment, extra, marker.var)
    IN CASE marker.op = "==" -> v = marker.val
         [] marker.op = "!=" -> v # marker.val
         [] marker.op = "<"  -> VersionLess(v, marker.val)
         [] marker.op = ">=" -> ~VersionLess(v, marker.val)

(***************************************************************************)
(* Lockfile data (spec.py, InfoSpec, PackageSpec, PyodideLockSpec).        *)
(***************************************************************************)
InfoSpec(arch, platform, version, python) ==
    [arch |-> arch, platform |-> platform, version |-> version, python |-> python]

PackageSpec(name, version, file_name, sha256, imports, depends) ==
    [name |-> name, version |-> version, file_name |-> file_name,
     install_dir |-> "site", sha256 |-> sha256, package_type |-> "package",
     imports |-> imports, depends |-> depends,
     unvendored_tests |-> FALSE, shared_library |-> FALSE]

\* "abc" as a name: one token per character
n_numpy      == <<"n", "u", "m", "p", "y">>
n_py_one     == <<"p", "y", "-", "o", "n", "e">>
n_legacy     == <<"l", "e", "g", "a", "c", "y">>
n_gone       == <<"g", "o", "n", "e">>
n_two        == <<"t", "w", "o">>
n_needs_one  == <<"n", "e", "e", "d", "s", "-", "o", "n", "e">>
n_opt        == <<"n", "e", "e", "d", "s", "-", "o", "n", "e", "-", "o", "p", "t">>
n_test_extra == <<"t", "e", "s", "t", "-", "e", "x", "t", "r", "a">>
n_failure    == <<"f", "a", "i", "l", "u", "r", "e">>
n_twice      == <<"t", "w", "i", "c", "e">>
n_bundle     == <<"b", "u", "n", "d", "l", "e">>
n_wants      == <<"w", "a", "n", "t", "s">>
n_wants_opt  == <<"w", "a", "n", "t", "s", "-", "o", "p", "t">>
n_not_expected == <<"n", "o", "t", "-", "e", "x", "p", "e", "c", "t", "e", "d">>

\* the LOCK_EXAMPLE of the tests, and a second target
InfoExample ==
    InfoSpec("wasm32", <<"emscripten", "_", "3", "_", "1", "_", "39">>,
             "0.24.0.dev0", <<3, 11, 3>>)

InfoOther ==
    InfoSpec("wasm64", <<"wasi", "_", "1">>, "0.27.0", <<3, 12, 0>>)

NumpyEntry ==
    PackageSpec(n_numpy, <<1, 24, 3>>,
        <<"numpy-1.24.3-cp311-cp311-emscripten_3_1_39_wasm32.whl">>,
        <<"513af43f">>, <<"numpy">>, <<>>)

\* an entry of a later version than the wheel of the batches
OldPyOneEntry ==
    PackageSpec(n_py_one, <<2, 0, 0>>, <<"py_one-2.0.0-py3-none-any.whl">>,
        <<"0ld0ld">>, <<"one">>, <<>>)

\* an entry whose dependency is no key of the lockfile
LegacyEntry ==
    PackageSpec(n_legacy, <<0, 1, 0>>, <<"legacy-0.1.0-py3-none-any.whl">>,
        <<"1e9ac1">>, <<"legacy">>, <<n_gone>>)

PackagesExample == (n_numpy :> NumpyEntry)

PackagesLegacy ==
    (n_numpy :> NumpyEntry) @@ (n_py_one :> OldPyOneEntry)
        @@ (n_legacy :> LegacyEntry)

InitialLocks ==
    {[info |-> i, packages |-> p] :
        i \in {InfoExample, InfoOther}, p \in {PackagesExample, PackagesLegacy}}

(***************************************************************************)
(* Requirements (packaging.requirements.Requirement): the name as it is    *)
(* spelled, the set of extras, the marker.                                 *)
(***************************************************************************)
Requirement(name, extras, marker) ==
    [name |-> name, extras |-> extras, marker |-> marker]

OnEmscripten    == Cmp("sys_platform", "==", <<"emscripten">>)
NotOnEmscripten == Cmp("sys_platform", "!=", <<"emscripten">>)
OldPython       == Cmp("python_version", "<", <<2, 7>>)
WithExtra(e)    == Cmp("extra", "==", <<e>>)

(***************************************************************************)
(* The archives on disk.  parse_wheel_filename and pkginfo.get_metadata    *)
(* are libraries: the model gives their result for each file.              *)
(***************************************************************************)
Tag(interpreter, abi, platform) ==
    [interpreter |-> interpreter, abi |-> abi, platform |-> platform]

Interp(impl, digits) == [impl |-> impl, digits |-> digits]

Py3NoneAny == Tag(Interp("py", <<3>>), Interp("none", <<>>), <<"any">>)
Py2NoneAny == Tag(Interp("py", <<2>>), Interp("none", <<>>), <<"any">>)

Cp311Emscripten ==
    Tag(Interp("cp", <<3, 1, 1>>), Interp("cp", <<3, 1, 1>>),
        <<"emscripten", "_", "3", "_", "1", "_", "39", "_", "wasm32">>)

Metadata(name, version, requires_dist) ==
    [name |-> name, version |-> version, requires_dist |-> requires_dist]

\* get_metadata gives None for an archive without readable metadata
NoMetadata == Metadata(<<>>, <<>>, <<>>)

\* top_level: what parse_top_level_import_name finds in the archive
Archive(valid, tags, metadata) ==
    [valid |-> valid, tags |-> tags, metadata |-> metadata,
     top_level |-> IF metadata.name = <<>> THEN <<>> ELSE <<"module">>]

F_py_one     == "py_one-1.0.0-py3-none-any.whl"
F_needs_one  == "needs_one-1.0.0-py3-none-any.whl"
F_opt        == "needs_one_opt-1.0.0-py3-none-any.whl"
F_test_extra == "test_extra-1.0.0-py2.py3-none-any.whl"
F_failure    == "failure-1.0.0-cp311-cp311-emscripten_3_1_39_wasm32.whl"
F_twice      == "twice-1.0.0-py3-none-any.whl"
F_bundle     == "bundle-1.0.0-py3-none-any.whl"
F_wants      == "wants-1.0.0-py3-none-any.whl"
F_wants_opt  == "wants_opt-1.0.0-py3-none-any.whl"
F_bad_name   == "bad-filename-for-a-wheel-1.0.0-py3-none-any.whl"
F_not_wheel  == "not_a_wheel-1.0.0-py3-none-any.whl"

\* wheels whose extras refer to each other
F_cyc_a      == "cyc_a-1.0.0-py3-none-any.whl"
F_cyc_b      == "cyc_b-1.0.0-py3-none-any.whl"
F_pick       == "pick-1.0.0-py3-none-any.whl"
F_hub        == "hub-1.0.0-py3-none-any.whl"
F_leaf       == "leaf-1.0.0-py3-none-any.whl"
F_root       == "root-1.0.0-py3-none-any.whl"
F_mid        == "mid-1.0.0-py3-none-any.whl"

n_cyc_a == <<"c", "y", "c", "-", "a">>
n_cyc_b == <<"c", "y", "c", "-", "b">>
n_pick  == <<"p", "i", "c", "k">>
n_hub   == <<"h", "u", "b">>
n_leaf  == <<"l", "e", "a", "f">>
n_root  == <<"r", "o", "o", "t">>
n_mid   == <<"m", "i", "d">>

\* wheels with further tags, for the compatibility check alone
F_linux      == "binary-1.0.0-cp311-cp311-linux_x86_64.whl"
F_cp312      == "binary-1.0.0-cp312-cp312-emscripten_3_1_39_wasm32.whl"
F_cp_none    == "pure-1.0.0-cp311-none-any.whl"
F_abi3       == "pure-1.0.0-py3-abi3-any.whl"
F_py3_linux  == "pure-1.0.0-py3-none-linux_x86_64.whl"
F_py2        == "pure-1.0.0-py2-none-any.whl"
F_py39       == "pure-1.0.0-py39-none-any.whl"
F_py311      == "pure-1.0.0-py311-none-any.whl"
F_py312      == "pure-1.0.0-py312-none-any.whl"
F_py2_cp311  == "mixed-1.0.0-py2.cp311-none.cp311-any.emscripten_3_1_39_wasm32.whl"

Emscripten_wasm32 ==
    <<"emscripten", "_", "3", "_", "1", "_", "39", "_", "wasm32">>

Linux_x86_64 == <<"linux", "_", "x86", "_", "64">>

\* the tags of the further wheels
FurtherTags ==
    (F_linux :> {Tag(Interp("cp", <<3, 1, 1>>), Interp("cp", <<3, 1, 1>>), Linux_x86_64)})
 @@ (F_cp312 :> {Tag(Interp("cp", <<3, 1, 2>>), Interp("cp", <<3, 1, 2>>),
                     Emscripten_wasm32)})
 @@ (F_cp_none :> {Tag(Interp("cp", <<3, 1, 1>>), Interp("none", <<>>), <<"any">>)})
 @@ (F_abi3 :> {Tag(Interp("py", <<3>>), Interp("abi", <<3>>), <<"any">>)})
 @@ (F_py3_linux :> {Tag(Interp("py", <<3>>), Interp("none", <<>>), Linux_x86_64)})
 @@ (F_py2 :> {Py2NoneAny})
 @@ (F_py39 :> {Tag(Interp("py", <<3, 9>>), Interp("none", <<>>), <<"any">>)})
 @@ (F_py311 :> {Tag(Interp("py", <<3, 1, 1>>), Interp("none", <<>>), <<"any">>)})
 @@ (F_py312 :> {Tag(Interp("py", <<3, 1, 2>>), Interp("none", <<>>), <<"any">>)})
 @@ (F_py2_cp311 :>
        {Tag(Interp(i[1], i[2]), Interp(a[1], a[2]), pl) :
            i \in {<<"py", <<2>>>>, <<"cp", <<3, 1, 1>>>>},
            a \in {<<"none", <<>>>>, <<"cp", <<3, 1, 1>>>>},
            pl \in {<<"any">>, Emscripten_wasm32}})

Archives ==
    (F_py_one :> Archive(TRUE, {Py3NoneAny},
        Metadata(<<"P", "y", "-", "O", "n", "e">>, <<1, 0, 0>>, <<>>)))
 @@ (F_needs_one :> Archive(TRUE, {Py3NoneAny},
        Metadata(<<"N", "E", "e", "d", "s", "-", "o", "n", "e">>, <<1, 0, 0>>,
          << Requirement(<<"p", "y", "_", "o", "n", "e">>, {}, NoMarker),
             Requirement(<<"N", "o", "t", ".", "e", "x", "p", "e", "c", "t", "e", "d">>,
                         {}, NotOnEmscripten),
             Requirement(<<"a", "r", "g", "p", "a", "r", "s", "e">>, {<<"old">>},
                         OldPython) >>)))
 @@ (F_opt :> Archive(TRUE, {Py3NoneAny},
        Metadata(<<"n", "E", "E", "d", "s", "-", "o", "n", "e", "-", "o", "p", "t">>,
          <<1, 0, 0>>,
          << Requirement(<<"p", "y", "_", "O", "n", "e">>, {}, WithExtra("with_one")),
             Requirement(n_two, {}, WithExtra("missing_opt")) >>)))
 @@ (F_test_extra :> Archive(TRUE, {Py2NoneAny, Py3NoneAny},
        Metadata(<<"t", "e", "s", "t", "-", "_", "e", "x", "t", "r", "a">>, <<1, 0, 0>>,
          << Requirement(<<"n", "e", "e", "d", "s", ".", "o", "n", "e", "_", "o", "p", "t">>,
                         {<<"with_one">>}, NoMarker) >>)))
 @@ (F_failure :> Archive(TRUE, {Cp311Emscripten},
        Metadata(n_failure, <<1, 0, 0>>,
          << Requirement(n_two, {}, NoMarker) >>)))
 @@ (F_twice :> Archive(TRUE, {Py3NoneAny},
        Metadata(n_twice, <<1, 0, 0>>,
          << Requirement(n_py_one, {}, NoMarker),
             Requirement(<<"P", "y", ".", "O", "n", "e">>, {}, OnEmscripten),
             Requirement(<<"T", "w", "i", "c", "e">>, {}, OnEmscripten) >>)))
 @@ (F_bundle :> Archive(TRUE, {Py3NoneAny},
        Metadata(n_bundle, <<1, 0, 0>>,
          << Requirement(n_bundle, {<<"b">>}, WithExtra("a")),
             Requirement(n_py_one, {}, WithExtra("b")) >>)))
 @@ (F_wants :> Archive(TRUE, {Py3NoneAny},
        Metadata(n_wants, <<1, 0, 0>>,
          << Requirement(n_bundle, {<<"a">>}, NoMarker) >>)))
 @@ (F_wants_opt :> Archive(TRUE, {Py3NoneAny},
        Metadata(n_wants_opt, <<1, 0, 0>>,
          << Requirement(n_opt, {<<"missing_opt">>, <<"with_one">>}, NoMarker) >>)))
 @@ (F_cyc_a :> Archive(TRUE, {Py3NoneAny},
        Metadata(n_cyc_a, <<1, 0, 0>>,
          << Requirement(n_cyc_b, {<<"x">>}, NoMarker),
             Requirement(<<"c", "y", "c", "_", "b">>, {<<"x">>}, WithExtra("y")) >>)))
 @@ (F_cyc_b :> Archive(TRUE, {Py3NoneAny},
        Metadata(n_cyc_b, <<1, 0, 0>>,
          << Requirement(n_cyc_a, {<<"y">>}, WithExtra("x")) >>)))
 @@ (F_pick :> Archive(TRUE, {Py3NoneAny},
        Metadata(n_pick, <<1, 0, 0>>,
          << Requirement(n_hub, {<<"e1">>, <<"e2">>}, NoMarker) >>)))
 @@ (F_hub :> Archive(TRUE, {Py3NoneAny},
        Metadata(n_hub, <<1, 0, 0>>,
          << Requirement(n_leaf, {}, WithExtra("e1")),
             Requirement(n_leaf, {<<"z">>}, WithExtra("e2")) >>)))
 @@ (F_leaf :> Archive(TRUE, {Py3NoneAny},
        Metadata(n_leaf, <<1, 0, 0>>,
          << Requirement(n_numpy, {}, WithExtra("z")) >>)))
 @@ (F_root :> Archive(TRUE, {Py3NoneAny},
        Metadata(n_root, <<1, 0, 0>>,
          << Requirement(n_mid, {<<"a">>}, NoMarker) >>)))
 @@ (F_mid :> Archive(TRUE, {Py3NoneAny},
        Metadata(n_mid, <<1, 0, 0>>,
          << Requirement(n_leaf, {}, NoMarker),
             Requirement(n_leaf, {<<"z">>}, WithExtra("a")) >>)))
 @@ (F_bad_name :> Archive(FALSE, {}, NoMetadata))
 @@ (F_not_wheel :> Archive(TRUE, {Py3NoneAny}, NoMetadata))
 @@ [f \in DOMAIN FurtherTags |->
        Archive(TRUE, FurtherTags[f], Metadata(<<"p", "u", "r", "e">>, <<1, 0, 0>>, <<>>))]

\* Paths (pathlib.Path): absolute or relative to the working directory
Path(abs, parts) == [abs |-> abs, parts |-> parts]

Cwd   == <<"w">>
Dist  == <<"w", "dist">>
Other == <<"o">>

\* the archive paths a caller may pass
WheelPaths ==
    { Path(FALSE, <<"dist", F_py_one>>),
      Path(TRUE, Dist \o <<F_needs_one>>),
      Path(TRUE, Dist \o <<F_opt>>),
      Path(TRUE, Dist \o <<F_test_extra>>),
      Path(TRUE, Dist \o <<F_failure>>),
      Path(TRUE, Other \o <<F_twice>>),
      Path(TRUE, Dist \o <<F_bundle>>),
      Path(TRUE, Dist \o <<F_wants>>),
      Path(TRUE, Dist \o <<F_wants_opt>>),
      Path(TRUE, Dist \o <<F_bad_name>>),
      Path(TRUE, Dist \o <<F_not_wheel>>) }

\* base_path: None, or a directory
NoPath == Path(FALSE, <<>>)

\* the (base_path, base_url) pairs a caller may pass: the defaults, and both given
Placements == {<<NoPath, <<>>>>, <<Path(TRUE, Cwd), <<"http://www.nowhere.org/">>>>}

(***************************************************************************)
(* pathlib: resolve, parent, name, str, Path(str), relative_to.            *)
(***************************************************************************)
resolve(path) == IF path.abs THEN path ELSE Path(TRUE, Cwd \o path.parts)

parent(path) == Path(path.abs, Front(path.parts))

RECURSIVE JoinParts(_)
JoinParts(parts) ==
    IF Len(parts) <= 1 THEN parts
    ELSE <<Head(parts), "/">> \o JoinParts(Tail(parts))

\* str(path)
StrOfPath(path) ==
    IF path.abs THEN <<"/">> \o JoinParts(path.parts) ELSE JoinParts(path.parts)

\* Path(text)
PathOfStr(text) ==
    Path(text # <<>> /\ Head(text) = "/", SelectSeq(text, LAMBDA t : t # "/"))

\* path.relative_to(base) raises ValueError unless base is an ancestor of path
IsRelativeTo(path, base) ==
    path.abs = base.abs /\ IsPrefix(base.parts, path.parts)

relative_to(path, base) ==
    Path(FALSE, SubSeq(path.parts, Len(base.parts) + 1, Len(path.parts)))

(***************************************************************************)
(* utils.py, _check_wheel_compatible                                       *)
(***************************************************************************)
Digits(n) == IF n < 10 THEN <<n>> ELSE <<n \div 10, n % 10>>

RECURSIVE IntOfDigits(_)
IntOfDigits(digits) ==
    IF digits = <<>> THEN 0
    ELSE 10 * IntOfDigits(Front(digits)) + Last(digits)

parse_wheel_filename(fname) == Archives[fname]

\* faulty variant: the minor number of a py tag is not compared
TagMatchesAnyMinor(t, info) ==
    LET major == info.python[1]
        minor == info.python[2]
        target_platform == info.platform \o <<"_", info.arch>>
        python_binary_abi == Interp("cp", Digits(major) \o Digits(minor))
    IN IF /\ t.abi = python_binary_abi
          /\ t.interpreter = python_binary_abi
          /\ t.platform = target_platform
       THEN TRUE
       ELSE IF t.abi = Interp("none", <<>>) /\ t.platform = <<"any">>
       THEN /\ t.interpreter.impl = "py"
            /\ IsPrefix(Digits(major), t.interpreter.digits)
       ELSE FALSE

TagMatches(t, info) ==
    LET major == info.python[1]
        minor == info.python[2]
        target_platform == info.platform \o <<"_", info.arch>>
        python_binary_abi == Interp("cp", Digits(major) \o Digits(minor))
        subver == SubSeq(t.interpreter.digits, Len(Digits(major)) + 1,
                         Len(t.interpreter.digits))
    IN IF /\ t.abi = python_binary_abi
          /\ t.interpreter = python_binary_abi
          /\ t.platform = target_platform
       THEN TRUE
       ELSE IF t.abi = Interp("none", <<>>) /\ t.platform = <<"any">>
       THEN /\ t.interpreter.impl = "py"
            /\ IsPrefix(Digits(major), t.interpreter.digits)
            /\ (Len(subver) = 0 \/ IntOfDigits(subver) <= minor)
       ELSE FALSE

\* "" when the wheel is accepted, else the error raised
_check_wheel_compatible(path, info) ==
    LET parsed == parse_wheel_filename(Last(path.parts))
    IN IF ~parsed.valid THEN "invalid wheel filename"
       ELSE IF \E t \in parsed.tags : TagMatches(t, info) THEN ""
       ELSE "incompatible tags"

(***************************************************************************)
(* utils.py, _wheel_metadata, _wheel_depends, _generate_package_hash,      *)
(* parse_top_level_import_name                                             *)
(***************************************************************************)
\* cache     what @cache keeps for _wheel_metadata, by path, for the life of
\*           the process (the later steps of a merge pass the path as text,
\*           a second key that is filled in the same merge from the same file)
\* replaced  the archives that a path holds in place of the one it held
\*           at first: the row of the table that has its content now
VARIABLES cache, replaced

\* the archive a path holds now
ContentKey(path) ==
    IF path \in DOMAIN replaced THEN replaced[path] ELSE Last(path.parts)

Content(path) == Archives[ContentKey(path)]

\* pkginfo.get_metadata(str(path)) reads the file
get_metadata(path) == Content(path).metadata

\* @cache: the value of the first call with this path is returned again
_wheel_metadata(path) ==
    IF path \in DOMAIN cache THEN cache[path] ELSE get_metadata(path)

_wheel_depends(metadata) == metadata.requires_dist

\* the hash of the bytes the file holds now
_generate_package_hash(path) == <<"sha256 of", ContentKey(path)>>

parse_top_level_import_name(path) == Content(path).top_level

(***************************************************************************)
(* utils.py, package_spec_from_wheel (spec.py, PackageSpec._from_wheel)    *)
(***************************************************************************)
Outcome(error, value) == [error |-> error, value |-> value]

NoEntry == PackageSpec(<<>>, <<>>, <<>>, <<>>, <<>>, <<>>)

package_spec_from_wheel(path, info) ==
    LET compatible == _check_wheel_compatible(path, info)
        metadata == _wheel_metadata(path)
    IN IF compatible # "" THEN Outcome(compatible, NoEntry)
       ELSE IF metadata = NoMetadata
       THEN Outcome("could not parse wheel metadata", NoEntry)
       ELSE Outcome("",
              PackageSpec(canonicalize_name(metadata.name), metadata.version,
                          StrOfPath(path), _generate_package_hash(path),
                          parse_top_level_import_name(path), <<>>))

\* faulty variant: the tags are not compared with the target
_from_wheel_unchecked(path, info) ==
    LET parsed == parse_wheel_filename(Last(path.parts))
        metadata == _wheel_metadata(path)
    IN IF ~parsed.valid THEN Outcome("invalid wheel filename", NoEntry)
       ELSE IF metadata = NoMetadata
       THEN Outcome("could not parse wheel metadata", NoEntry)
       ELSE Outcome("",
              PackageSpec(canonicalize_name(metadata.name), metadata.version,
                          StrOfPath(path), _generate_package_hash(path),
                          parse_top_level_import_name(path), <<>>))

\* spec.py, PackageSpec._from_wheel: the same steps, with the test of the
\* file name and of the tags written out in the method
_from_wheel(path, info) ==
    LET parsed == parse_wheel_filename(Last(path.parts))
        tag_match == \E t \in parsed.tags : TagMatches(t, info)
        metadata == _wheel_metadata(path)
    IN IF ~parsed.valid THEN Outcome("invalid wheel filename", NoEntry)
       ELSE IF ~tag_match THEN Outcome("incompatible tags", NoEntry)
       ELSE IF metadata = NoMetadata
       THEN Outcome("could not parse wheel metadata", NoEntry)
       ELSE Outcome("",
              PackageSpec(canonicalize_name(metadata.name), metadata.version,
                          StrOfPath(path), _generate_package_hash(path),
                          parse_top_level_import_name(path), <<>>))

(***************************************************************************)
(* The draft map new_packages: a dict keeps its keys in insertion order,   *)
(* and assigning to an existing key keeps the key's place.                 *)
(***************************************************************************)
EmptyDict == [order |-> <<>>, map |-> <<>>]

Keys(d) == Range(d.order)

SetItem(d, key, value) ==
    IF key \in Keys(d)
    THEN [d EXCEPT !.map = [d.map EXCEPT ![key] = value]]
    ELSE [order |-> Append(d.order, key), map |-> d.map @@ (key :> value)]

\* faulty variant: of two entries of one name the later version is kept
MergedPackagesNewestWins(packages, new_packages) ==
    [k \in DOMAIN packages \cup Keys(new_packages) |->
        IF k \notin Keys(new_packages) THEN packages[k]
        ELSE IF k \in DOMAIN packages
                /\ VersionLess(new_packages.map[k].version, packages[k].version)
        THEN packages[k]
        ELSE new_packages.map[k]]

\* faulty variant: the result holds the batch alone
MergedPackagesBatchOnly(packages, new_packages) ==
    [k \in Keys(new_packages) |-> new_packages.map[k]]

\* packages |= new_packages
MergedPackages(packages, new_packages) ==
    [k \in DOMAIN packages \cup Keys(new_packages) |->
        IF k \in Keys(new_packages) THEN new_packages.map[k] ELSE packages[k]]

(***************************************************************************)
(* utils.py, _fix_new_package_deps, lines 215-241: the first scan of one   *)
(* batch package (spec.py, lines 227-253).                                 *)
(***************************************************************************)
\* faulty variant: every name counts as known
ResolvesAlways(req_name, new_packages, packages) == TRUE

\* req_name in new_packages or req_name in lock_spec.packages
Resolves(req_name, new_packages, packages) ==
    req_name \in Keys(new_packages) \/ req_name \in DOMAIN packages

Scan(depends, extras, error) ==
    [depends |-> depends, extras |-> extras, error |-> error]

\* faulty variant: the override is not honoured
ScanRequirementStrict(acc, r, lock_spec, new_packages, ignore_missing_dependencies) ==
    LET req_name == canonicalize_name(r.name)
        marker_environment == _get_marker_environment(lock_spec.info)
        extras == IF r.extras # {} THEN Append(acc.extras, r) ELSE acc.extras
    IN IF r.marker # NoMarker
          /\ ~MarkerEvaluate(r.marker, marker_environment, NoExtra)
       THEN acc
       ELSE IF Resolves(req_name, new_packages, lock_spec.packages)
       THEN Scan(Append(acc.depends, req_name), extras, "")
       ELSE Scan(acc.depends, extras, "missing dependency")

\* faulty variant: the marker is not evaluated
ScanRequirementNoMarker(acc, r, lock_spec, new_packages, ignore_missing_dependencies) ==
    LET req_name == canonicalize_name(r.name)
        extras == IF r.extras # {} THEN Append(acc.extras, r) ELSE acc.extras
    IN IF Resolves(req_name, new_packages, lock_spec.packages)
       THEN Scan(Append(acc.depends, req_name), extras, "")
       ELSE IF ignore_missing_dependencies
       THEN Scan(Append(acc.depends, req_name), extras, "")
       ELSE Scan(acc.depends, extras, "missing dependency")

\* one turn of "for r in requirements" (lines 221-240)
ScanRequirement(acc, r, lock_spec, new_packages, ignore_missing_dependencies) ==
    LET req_name == canonicalize_name(r.name)
        marker_environment == _get_marker_environment(lock_spec.info)
        extras == IF r.extras # {} THEN Append(acc.extras, r) ELSE acc.extras
    IN IF r.marker # NoMarker
          /\ ~MarkerEvaluate(r.marker, marker_environment, NoExtra)
       THEN acc
       ELSE IF Resolves(req_name, new_packages, lock_spec.packages)
       THEN Scan(Append(acc.depends, req_name), extras, "")
       ELSE IF ignore_missing_dependencies
       THEN Scan(Append(acc.depends, req_name), extras, "")
       ELSE Scan(acc.depends, extras, "missing dependency")

RECURSIVE ScanRequirements(_, _, _, _, _)
ScanRequirements(acc, requirements, lock_spec, new_packages, ignore_missing_dependencies) ==
    IF requirements = <<>> \/ acc.error # "" THEN acc
    ELSE ScanRequirements(
            ScanRequirement(acc, Head(requirements), lock_spec, new_packages,
                            ignore_missing_dependencies),
            Tail(requirements), lock_spec, new_packages,
            ignore_missing_dependencies)

\* the body of "for package in new_packages.values()": our_depends starts
\* empty, requirements_with_extras is the list shared by all packages
ScanPackage(package, requirements_with_extras, lock_spec, new_packages, ignore_missing_dependencies) ==
    ScanRequirements(Scan(<<>>, requirements_with_extras, ""),
        _wheel_depends(_wheel_metadata(PathOfStr(package.file_name))),
        lock_spec, new_packages, ignore_missing_dependencies)

(***************************************************************************)
(* utils.py, _fix_extra_dep (spec.py, PyodideLockSpec._fix_extra_dep).     *)
(* extra_req.extras is a set: extras_order is the order its iteration      *)
(* yields.                                                                 *)
(***************************************************************************)
\* faulty variant: the extra is not expanded
ExtraRequirementDropped(acc, extra, r, lock_spec, new_packages, ignore_missing_dependencies) == acc

\* faulty variant: a name that resolves nowhere is recorded without the override
ExtraRequirementLenient(acc, extra, r, lock_spec, new_packages, ignore_missing_dependencies) ==
    LET req_name == canonicalize_name(r.name)
        marker_environment == _get_marker_environment(lock_spec.info)
    IN IF req_name \in Range(acc.depends) THEN acc
       ELSE IF r.marker = NoMarker THEN acc
       ELSE IF ~MarkerEvaluate(r.marker, marker_environment, extra) THEN acc
       ELSE Scan(Append(acc.depends, req_name),
                 IF r.extras # {} THEN Append(acc.extras, r) ELSE acc.extras, "")

\* faulty variant: no test "req_name not in our_depends"
ExtraRequirementRequeued(acc, extra, r, lock_spec, new_packages, ignore_missing_dependencies) ==
    LET req_name == canonicalize_name(r.name)
        marker_environment == _get_marker_environment(lock_spec.info)
    IN IF r.marker = NoMarker THEN acc
       ELSE IF ~MarkerEvaluate(r.marker, marker_environment, extra) THEN acc
       ELSE IF Resolves(req_name, new_packages, lock_spec.packages)
       THEN Scan(Append(acc.depends, req_name),
                 IF r.extras # {} THEN Append(acc.extras, r) ELSE acc.extras, "")
       ELSE IF ignore_missing_dependencies
       THEN Scan(Append(acc.depends, req_name), acc.extras, "")
       ELSE Scan(acc.depends, acc.extras, "missing dependency")

\* one turn of "for r in requirements" under one extra (lines 277-294)
ExtraRequirement(acc, extra, r, lock_spec, new_packages, ignore_missing_dependencies) ==
    LET req_name == canonicalize_name(r.name)
        marker_environment == _get_marker_environment(lock_spec.info)
    IN IF req_name \in Range(acc.depends) THEN acc
       ELSE IF r.marker = NoMarker THEN acc
       ELSE IF ~MarkerEvaluate(r.marker, marker_environment, extra) THEN acc
       ELSE IF Resolves(req_name, new_packages, lock_spec.packages)
       THEN Scan(Append(acc.depends, req_name),
                 IF r.extras # {} THEN Append(acc.extras, r) ELSE acc.extras, "")
       ELSE IF ignore_missing_dependencies
       THEN Scan(Append(acc.depends, req_name), acc.extras, "")
       ELSE Scan(acc.depends, acc.extras, "missing dependency")

RECURSIVE ExtraRequirements(_, _, _, _, _, _)
ExtraRequirements(acc, extra, requirements, lock_spec, new_packages, ignore_missing_dependencies) ==
    IF requirements = <<>> \/ acc.error # "" THEN acc
    ELSE ExtraRequirements(
            ExtraRequirement(acc, extra, Head(requirements), lock_spec,
                             new_packages, ignore_missing_dependencies),
            extra, Tail(requirements), lock_spec, new_packages,
            ignore_missing_dependencies)

RECURSIVE ForEachExtra(_, _, _, _, _, _)
ForEachExtra(acc, extras_order, requirements, lock_spec, new_packages, ignore_missing_dependencies) ==
    IF extras_order = <<>> \/ acc.error # "" THEN acc
    ELSE ForEachExtra(
            ExtraRequirements(acc, Head(extras_order), requirements, lock_spec,
                              new_packages, ignore_missing_dependencies),
            Tail(extras_order), requirements, lock_spec, new_packages,
            ignore_missing_dependencies)

\* the name of the package whose depends the call extends
ExtraTarget(extra_req) == canonicalize_name(extra_req.name)

\* result: the depends of the named package, the requirements to enqueue
\* (empty when the named package is outside the batch), the error
_fix_extra_dep(lock_spec, extra_req, extras_order, new_packages, ignore_missing_dependencies) ==
    LET extra_package_name == ExtraTarget(extra_req)
        package == new_packages.map[extra_package_name]
    IN IF extra_package_name \notin Keys(new_packages)
       THEN Scan(<<>>, <<>>, "")
       ELSE ForEachExtra(Scan(package.depends, <<>>, ""), extras_order,
                _wheel_depends(_wheel_metadata(PathOfStr(package.file_name))),
                lock_spec, new_packages, ignore_missing_dependencies)

(***************************************************************************)
(* utils.py, _set_package_paths (spec.py, lines 309-315)                   *)
(***************************************************************************)
\* faulty variant: relative_to never raises
PathsOkAlways(new_packages, base_path) == TRUE

PathsOk(new_packages, base_path) ==
    \A k \in Keys(new_packages) :
        IsRelativeTo(PathOfStr(new_packages.map[k].file_name), base_path)

\* faulty variant: the URL and the path are joined like two paths
RewrittenNameWithSlash(file_name, base_path, base_url) ==
    base_url \o <<"/">> \o StrOfPath(relative_to(PathOfStr(file_name), base_path))

RewrittenName(file_name, base_path, base_url) ==
    base_url \o StrOfPath(relative_to(PathOfStr(file_name), base_path))

_set_package_paths(new_packages, base_path, base_url) ==
    [new_packages EXCEPT !.map =
        [k \in Keys(new_packages) |->
            [new_packages.map[k] EXCEPT
                !.file_name = RewrittenName(@, base_path, base_url)]]]

(***************************************************************************)
(* State.                                                                  *)
(*   lock       the caller's lockfile: self of PyodideLockSpec.add_wheels, *)
(*              lock_spec of add_wheels_to_spec                            *)
(*   new_spec   the copy add_wheels_to_spec works on and returns           *)
(*   call       the arguments of the merge in progress                     *)
(*   pc, idx    the position in the merge                                  *)
(*   new_packages, requirements_with_extras   the locals of the merge      *)
(*   status     "" while running, "ok", or the error raised                *)
(*   old        the lockfile as it was when the merge was called           *)
(*   log        the archive operations of the merge, in order              *)
(*   expanded   the requirements the drain has popped so far, each with    *)
(*              the order in which its extras were iterated                *)
(*   merges     the number of merges finished                              *)
(*   origin     the lockfile the behaviour started from                    *)
(*   overridden whether some merge so far was called with the override     *)
(*   arg        the arguments as the caller passed them                    *)
(*   shared     which objects of new_spec are the very objects of lock     *)
(*   ret        what the operation other than a merge returned or raised   *)
(*   disk       the content of the lockfile on disk, a sequence of tokens  *)
(*   io         the position of to_json in its write                       *)
(*   job        a run of UvPipCompile._update: its excludes, where it      *)
(*              writes, the wheels the solver gave and the steps so far    *)
(***************************************************************************)
VARIABLES lock, new_spec, call, pc, idx, new_packages,
          requirements_with_extras, status, old, log, expanded, merges,
          origin, overridden, arg, shared, ret, disk, io, job

vars == <<lock, new_spec, call, pc, idx, new_packages,
          requirements_with_extras, status, old, log, expanded, merges,
          origin, overridden, arg, shared, ret, disk, io, cache, replaced, job>>

\* what a step of a merge leaves alone besides the merge's own state
aside == <<arg, shared, ret, disk, io, replaced, job>>

NoJob == [excludes |-> <<>>, output |-> "", before |-> <<>>, wheels |-> <<>>,
          steps |-> <<>>]

history == <<merges, origin, overridden>>

Apis == {"add_wheels", "add_wheels_to_spec"}

Call(api, wheel_files, base_path, base_url, ignore_missing_dependencies) ==
    [api |-> api, wheel_files |-> wheel_files, base_path |-> base_path,
     base_url |-> base_url,
     ignore_missing_dependencies |-> ignore_missing_dependencies]

NoCall == Call("", <<>>, NoPath, <<>>, FALSE)

\* two lockfile objects share nothing, neither the packages dict nor an entry
NoSharing == [dict |-> FALSE, entries |-> {}]

\* faulty variant: model_copy(deep=False), the copy holds the same dict object
model_copy_shallow(lock_spec) ==
    [value |-> lock_spec,
     shared |-> [dict |-> TRUE, entries |-> DOMAIN lock_spec.packages]]

\* lock_spec.model_copy(deep=True): an equal lockfile of new objects
model_copy(lock_spec) == [value |-> lock_spec, shared |-> NoSharing]

\* nothing returned, nothing on disk
Nothing == <<>>

Event(op, path) == [op |-> op, file |-> path.parts]

Batches == SeqsUpTo(WheelPaths, MaxBatch)

\* the batches of the sequences of merges
SeqBatches ==
    { <<Path(FALSE, <<"dist", F_py_one>>)>>,
      <<Path(TRUE, Dist \o <<F_needs_one>>)>>,
      <<Path(TRUE, Dist \o <<F_opt>>), Path(TRUE, Dist \o <<F_test_extra>>)>>,
      <<Path(TRUE, Dist \o <<F_opt>>)>>,
      <<Path(TRUE, Dist \o <<F_test_extra>>)>>,
      <<Path(TRUE, Dist \o <<F_failure>>)>>,
      <<Path(TRUE, Other \o <<F_twice>>)>> }

Init ==
    /\ lock \in InitialLocks
    /\ new_spec = lock
    /\ call = NoCall
    /\ pc = "idle"
    /\ idx = 0
    /\ new_packages = EmptyDict
    /\ requirements_with_extras = <<>>
    /\ status = ""
    /\ old = lock
    /\ log = <<>>
    /\ expanded = <<>>
    /\ merges = 0
    /\ origin = lock
    /\ overridden = FALSE
    /\ arg = NoCall
    /\ shared = NoSharing
    /\ ret = Nothing
    /\ disk = Nothing
    /\ io = "closed"
    /\ cache = <<>>
    /\ replaced = <<>>
    /\ job = NoJob

\* faulty variant: each entry is stored in the lockfile as soon as it is built
RaiseKeepingDraft(error) ==
    /\ pc' = "done"
    /\ status' = error
    /\ lock' = [lock EXCEPT !.packages = MergedPackages(lock.packages, new_packages)]
    /\ UNCHANGED new_spec

\* the merge ends with an exception: nothing is assigned to the lockfile
Raise(error) ==
    /\ pc' = "done"
    /\ status' = error
    /\ UNCHANGED <<lock, new_spec>>

(***************************************************************************)
(* add_wheels (spec.py, lines 199-207), add_wheels_to_spec (utils.py,      *)
(* lines 182-191): the empty batch returns at once; else the paths are     *)
(* resolved and the draft map starts empty.                                *)
(***************************************************************************)
ResolvedCall(api, wheel_files, base_path, base_url, ignore_missing_dependencies) ==
    LET resolved == [i \in 1..Len(wheel_files) |-> resolve(wheel_files[i])]
    IN Call(api, resolved,
            IF wheel_files = <<>> THEN base_path
            ELSE IF base_path = NoPath THEN parent(resolved[1])
            ELSE resolve(base_path),
            base_url, ignore_missing_dependencies)

\* faulty variant: no early return, wheel_files[0] is evaluated on the empty list
EmptyBatchRaises(api) ==
    /\ pc' = "done"
    /\ status' = "list index out of range"
    /\ idx' = 0
    /\ new_spec' = IF api = "add_wheels_to_spec" THEN lock ELSE new_spec

\* "if len(wheel_files) <= 0: return", "if not wheel_files: return new_spec"
ReturnAtOnce(api) ==
    /\ pc' = "done"
    /\ status' = "ok"
    /\ idx' = 0
    /\ new_spec' = IF api = "add_wheels_to_spec" THEN lock ELSE new_spec

StartMerge(api, wheel_files, base_path, base_url, ignore_missing_dependencies) ==
    /\ pc = "idle"
    /\ call' = ResolvedCall(api, wheel_files, base_path, base_url,
                            ignore_missing_dependencies)
    /\ old' = lock
    /\ log' = <<>>
    /\ expanded' = <<>>
    /\ overridden' = (overridden \/ ignore_missing_dependencies)
    /\ new_packages' = EmptyDict
    /\ requirements_with_extras' = <<>>
    /\ arg' = Call(api, wheel_files, base_path, base_url,
                   ignore_missing_dependencies)
    /\ shared' = IF api = "add_wheels_to_spec" THEN model_copy(lock).shared
                 ELSE NoSharing
    /\ IF wheel_files = <<>>
       THEN ReturnAtOnce(api)
       ELSE /\ pc' = "from_wheel"
            /\ status' = ""
            /\ idx' = 1
            /\ new_spec' = IF api = "add_wheels_to_spec"
                           THEN model_copy(lock).value ELSE new_spec
    /\ UNCHANGED <<lock, merges, origin, ret, disk, io, cache, replaced, job>>

(***************************************************************************)
(* One turn of "for f in wheel_files" (utils.py, lines 192-195).           *)
(***************************************************************************)
\* faulty variant: the metadata is read before the tags are checked
FromWheelEventsMetadataFirst(path, info) ==
    <<Event("metadata", path), Event("check", path)>>
    \o (IF package_spec_from_wheel(path, info).error = ""
        THEN <<Event("hash", path), Event("imports", path)>>
        ELSE <<>>)

FromWheelEvents(path, info) ==
    <<Event("check", path)>>
    \o (IF _check_wheel_compatible(path, info) = "" THEN <<Event("metadata", path)>>
        ELSE <<>>)
    \o (IF package_spec_from_wheel(path, info).error = ""
        THEN <<Event("hash", path), Event("imports", path)>>
        ELSE <<>>)

FromWheel ==
    /\ pc = "from_wheel"
    /\ LET f == call.wheel_files[idx]
           spec == IF call.api = "add_wheels" THEN _from_wheel(f, lock.info)
                   ELSE package_spec_from_wheel(f, lock.info)
       IN /\ log' = log \o FromWheelEvents(f, lock.info)
          /\ IF spec.error # ""
             THEN /\ Raise(spec.error)
                  /\ UNCHANGED <<idx, new_packages>>
             ELSE /\ new_packages' = SetItem(new_packages, spec.value.name, spec.value)
                  /\ status' = status
                  /\ IF idx = Len(call.wheel_files)
                     THEN pc' = "scan" /\ idx' = 1
                     ELSE pc' = pc /\ idx' = idx + 1
                  /\ UNCHANGED <<lock, new_spec>>
          /\ cache' = IF _check_wheel_compatible(f, lock.info) = ""
                         /\ f \notin DOMAIN cache
                      THEN cache @@ (f :> get_metadata(f))
                      ELSE cache
    /\ UNCHANGED <<call, requirements_with_extras, old, expanded, history, aside>>

(***************************************************************************)
(* One turn of "for package in new_packages.values()" (utils.py, lines     *)
(* 215-241).                                                               *)
(***************************************************************************)
ScanNext ==
    /\ pc = "scan"
    /\ LET name == new_packages.order[idx]
           package == new_packages.map[name]
           scan == ScanPackage(package, requirements_with_extras, lock,
                               new_packages, call.ignore_missing_dependencies)
       IN /\ log' = Append(log, Event("requirements", PathOfStr(package.file_name)))
          /\ IF scan.error # ""
             THEN /\ Raise(scan.error)
                  /\ UNCHANGED <<idx, new_packages, requirements_with_extras>>
             ELSE /\ new_packages' =
                        [new_packages EXCEPT !.map[name].depends = scan.depends]
                  /\ requirements_with_extras' = scan.extras
                  /\ status' = status
                  /\ IF idx = Len(new_packages.order)
                     THEN pc' = "drain" /\ idx' = 0
                     ELSE pc' = pc /\ idx' = idx + 1
                  /\ UNCHANGED <<lock, new_spec>>
    /\ UNCHANGED <<call, old, expanded, history, aside, cache>>

(***************************************************************************)
(* One turn of "while len(requirements_with_extras) != 0" (utils.py, lines *)
(* 242-248): the last requirement is popped and what _fix_extra_dep        *)
(* returns is appended.                                                    *)
(***************************************************************************)
Drain ==
    /\ pc = "drain"
    /\ requirements_with_extras # <<>>
    /\ LET extra_req == Last(requirements_with_extras)
           target == ExtraTarget(extra_req)
       IN \E extras_order \in Orders(extra_req.extras) :
            LET fixed == _fix_extra_dep(lock, extra_req, extras_order, new_packages,
                                        call.ignore_missing_dependencies)
            IN /\ expanded' = Append(expanded,
                    [req |-> extra_req, extras_order |-> extras_order])
               /\ IF fixed.error # ""
                  THEN /\ Raise(fixed.error)
                       /\ UNCHANGED <<new_packages, requirements_with_extras>>
                  ELSE /\ new_packages' =
                             IF target \in Keys(new_packages)
                             THEN [new_packages EXCEPT
                                     !.map[target].depends = fixed.depends]
                             ELSE new_packages
                       /\ requirements_with_extras' =
                             Front(requirements_with_extras) \o fixed.extras
                       /\ UNCHANGED <<pc, status, lock, new_spec>>
    /\ UNCHANGED <<call, idx, old, log, history, aside, cache>>

(***************************************************************************)
(* _set_package_paths, once the worklist is empty (utils.py, line 198).    *)
(***************************************************************************)
SetPackagePaths ==
    /\ pc = "drain"
    /\ requirements_with_extras = <<>>
    /\ IF ~PathsOk(new_packages, call.base_path)
       THEN /\ Raise("path not under base path")
            /\ UNCHANGED new_packages
       ELSE /\ new_packages' =
                  _set_package_paths(new_packages, call.base_path, call.base_url)
            /\ pc' = "merge"
            /\ UNCHANGED <<status, lock, new_spec>>
    /\ UNCHANGED <<call, idx, requirements_with_extras, old, log, expanded,
                   history, aside, cache>>

(***************************************************************************)
(* self.packages |= new_packages (spec.py, line 215);                      *)
(* new_spec.packages |= new_packages (utils.py, line 199).                 *)
(***************************************************************************)
MergeNewPackages ==
    /\ pc = "merge"
    /\ IF call.api = "add_wheels"
       THEN /\ lock' = [lock EXCEPT !.packages =
                            MergedPackages(lock.packages, new_packages)]
            /\ UNCHANGED new_spec
       ELSE /\ new_spec' = [new_spec EXCEPT !.packages =
                                MergedPackages(new_spec.packages, new_packages)]
            /\ lock' = IF shared.dict
                       THEN [lock EXCEPT !.packages =
                               MergedPackages(lock.packages, new_packages)]
                       ELSE lock
    /\ pc' = "done"
    /\ status' = "ok"
    /\ UNCHANGED <<call, idx, new_packages, requirements_with_extras, old, log,
                   expanded, history, aside, cache>>

(***************************************************************************)
(* The call returns or raises.  After a successful add_wheels_to_spec the  *)
(* caller goes on with the returned lockfile (cli.py, line 73).            *)
(***************************************************************************)
Return ==
    /\ pc = "done"
    /\ pc' = "idle"
    /\ lock' = IF status = "ok" /\ call.api = "add_wheels_to_spec"
               THEN new_spec ELSE lock
    /\ merges' = merges + 1
    /\ UNCHANGED <<new_spec, call, idx, new_packages, requirements_with_extras,
                   status, old, log, expanded, origin, overridden, aside, cache>>

\* a caller calls one of the two merge functions
AddWheels ==
    /\ pc = "idle"
    /\ \E api \in Apis, wheel_files \in Batches, placement \in Placements,
          ignore_missing_dependencies \in BOOLEAN :
          StartMerge(api, wheel_files, placement[1], placement[2],
                     ignore_missing_dependencies)

\* one merge of any batch into any of the initial lockfiles
Next ==
    \/ AddWheels
    \/ FromWheel
    \/ ScanNext
    \/ Drain
    \/ SetPackagePaths
    \/ MergeNewPackages

Spec == Init /\ [][Next]_vars

(***************************************************************************)
(* Sequences of merges: each merge starts from the lockfile the one before *)
(* left, with the default base path and URL.                               *)
(***************************************************************************)
AddWheelsAgain ==
    /\ pc = "idle"
    /\ merges < MaxMerges
    /\ \E api \in Apis, wheel_files \in SeqBatches,
          ignore_missing_dependencies \in BOOLEAN :
          StartMerge(api, wheel_files, NoPath, <<>>, ignore_missing_dependencies)

NextSeq ==
    \/ AddWheelsAgain
    \/ FromWheel
    \/ ScanNext
    \/ Drain
    \/ SetPackagePaths
    \/ MergeNewPackages
    \/ Return

SpecSeq == Init /\ [][NextSeq]_vars

(***************************************************************************)
(* Vocabulary of the properties.                                           *)
(***************************************************************************)
Succeeded == pc = "done" /\ status = "ok"

Failed == pc = "done" /\ status # "ok"

Strict == ~call.ignore_missing_dependencies

\* the lockfile a successful merge yields
Result == IF call.api = "add_wheels" THEN lock ELSE new_spec

BatchKeys == Keys(new_packages)

Closed(packages) ==
    \A k \in DOMAIN packages : Range(packages[k].depends) \subseteq DOMAIN packages

\* the archive a batch entry was built from: the last one of that name
NameAt(i) == canonicalize_name(_wheel_metadata(call.wheel_files[i]).name)

SourceOf(k) ==
    call.wheel_files[CHOOSE i \in 1..Len(call.wheel_files) :
        NameAt(i) = k /\ \A j \in (i + 1)..Len(call.wheel_files) : NameAt(j) # k]

RequirementsOf(k) == _wheel_depends(_wheel_metadata(SourceOf(k)))

\* r applies without any extra: it has no marker, or its marker is true
Applicable(r) ==
    r.marker = NoMarker
    \/ MarkerEvaluate(r.marker, _get_marker_environment(old.info), NoExtra)

\* r applies under the extra e
ApplicableWith(r, e) ==
    r.marker # NoMarker
    /\ MarkerEvaluate(r.marker, _get_marker_environment(old.info), e)

Known(name) == name \in BatchKeys \/ name \in DOMAIN old.packages

\* the (package, extra) pairs the drain has expanded in the batch
Expansions ==
    UNION {{<<canonicalize_name(expanded[i].req.name), e>> :
                e \in Range(expanded[i].extras_order)} : i \in 1..Len(expanded)}

(***************************************************************************)
(* C1.  Closure.  As stated: after every successful merge made without the *)
(* override, every name in the depends of every package of the result, new *)
(* or pre-existing, is a key of the result, after any sequence of such     *)
(* merges.                                                                 *)
(***************************************************************************)
C1_ClosedAfterStrictMerges ==
    (Succeeded /\ ~overridden) => Closed(Result.packages)

(***************************************************************************)
(* C1, amended: after every successful merge made without the override,    *)
(* every name in the depends of every entry of the batch is a key of the   *)
(* result; and when the sequence of merges started from a closed lockfile  *)
(* and none used the override, the lockfile is closed throughout and so is *)
(* every result.                                                           *)
(***************************************************************************)
C1_ClosurePreserved ==
    /\ (Succeeded /\ Strict) =>
          \A k \in BatchKeys :
              Range(Result.packages[k].depends) \subseteq DOMAIN Result.packages
    /\ (~overridden /\ Closed(origin.packages)) =>
          /\ Closed(lock.packages)
          /\ Succeeded => Closed(Result.packages)

\* a second merge has added an entry with an edge to a closed lockfile
C1_Witness ==
    /\ Succeeded /\ ~overridden /\ Closed(origin.packages) /\ merges >= 1
    /\ \E k \in BatchKeys : Result.packages[k].depends # <<>>

(***************************************************************************)
(* C2.  A merge that fails leaves the lockfile as it was before the call:  *)
(* from the call until the final assignment, and after any error, the      *)
(* caller's lockfile equals the one the call received, and the copy        *)
(* add_wheels_to_spec works on holds no entry of the batch.                *)
(***************************************************************************)
C2_FailureLeavesLockfile ==
    (pc # "idle" /\ ~Succeeded) =>
        /\ lock = old
        /\ call.api = "add_wheels_to_spec" => new_spec = old

\* the batch fails after one of its archives was processed
C2_Witness ==
    /\ Failed /\ BatchKeys # {}
    /\ \E k \in BatchKeys : k \notin DOMAIN old.packages

(***************************************************************************)
(* C3.  Without the override, a merge never succeeds when a requirement    *)
(* it met, in the first scan of a batch package or under an extra it       *)
(* expanded in the drain, applies and names no package of the batch or of  *)
(* the lockfile.                                                           *)
(***************************************************************************)
C3_MissingDependencyFails ==
    (Succeeded /\ Strict) =>
        /\ \A k \in BatchKeys : \A r \in Range(RequirementsOf(k)) :
              Applicable(r) => Known(canonicalize_name(r.name))
        /\ \A x \in Expansions : x[1] \in BatchKeys =>
              \A r \in Range(RequirementsOf(x[1])) :
                  ApplicableWith(r, x[2]) => Known(canonicalize_name(r.name))

\* the merge failed in the drain, on a requirement of an extra
C3_Witness ==
    /\ Failed /\ Strict /\ status = "missing dependency"
    /\ expanded # <<>>

(***************************************************************************)
(* C4.  With the override, no merge ends with a missing-dependency error,  *)
(* and after a successful one the canonical name of every requirement that *)
(* applied, in the first scan or under an expanded extra, is in the depends *)
(* of the package that declares it, known or not.                          *)
(***************************************************************************)
C4_OverrideRecordsUnknown ==
    /\ ~Strict => status # "missing dependency"
    /\ (Succeeded /\ ~Strict) =>
        /\ \A k \in BatchKeys : \A r \in Range(RequirementsOf(k)) :
              Applicable(r) =>
                  canonicalize_name(r.name) \in Range(Result.packages[k].depends)
        /\ \A x \in Expansions : x[1] \in BatchKeys =>
              \A r \in Range(RequirementsOf(x[1])) :
                  ApplicableWith(r, x[2]) =>
                      canonicalize_name(r.name)
                          \in Range(Result.packages[x[1]].depends)

\* a name that resolves nowhere was recorded under an expanded extra
C4_Witness ==
    /\ Succeeded /\ ~Strict
    /\ \E x \in Expansions : x[1] \in BatchKeys /\
          \E r \in Range(RequirementsOf(x[1])) :
              /\ ApplicableWith(r, x[2]) /\ ~Applicable(r)
              /\ ~Known(canonicalize_name(r.name))
              /\ canonicalize_name(r.name) \in Range(Result.packages[x[1]].depends)

(***************************************************************************)
(* C5.  The merge of the empty batch succeeds, leaves the caller's         *)
(* lockfile as it was, yields a lockfile equal to it, and performs no      *)
(* archive operation.                                                      *)
(***************************************************************************)
C5_EmptyBatchIsIdentity ==
    (pc = "done" /\ call.wheel_files = <<>>) =>
        /\ status = "ok"
        /\ lock = old
        /\ Result = old
        /\ log = <<>>

\* add_wheels_to_spec has returned from a call with no archive
C5_Witness ==
    pc = "done" /\ call.wheel_files = <<>> /\ call.api = "add_wheels_to_spec"

(***************************************************************************)
(* Vocabulary of the properties on requirements.                           *)
(***************************************************************************)
\* the canonical names of a list of requirements, in its order
RECURSIVE NamesOf(_)
NamesOf(requirements) ==
    IF requirements = <<>> THEN <<>>
    ELSE <<canonicalize_name(Head(requirements).name)>>
         \o NamesOf(Tail(requirements))

\* the requirements of the batch packages that apply in the first scan and
\* carry extras, in the order of the batch and of the archives
RECURSIVE WithExtrasFrom(_)
WithExtrasFrom(i) ==
    IF i > Len(new_packages.order) THEN <<>>
    ELSE SelectSeq(RequirementsOf(new_packages.order[i]),
                   LAMBDA r : Applicable(r) /\ r.extras # {})
         \o WithExtrasFrom(i + 1)

\* one round of requests: <<P, e>> is requested when a batch package has a
\* requirement P[.., e, ..] that applies, by itself or under a requested extra
RequestStep(S) ==
    S \cup UNION {UNION {{<<canonicalize_name(r.name), e>> : e \in r.extras} :
                     r \in {q \in Range(RequirementsOf(X)) :
                              \/ Applicable(q)
                              \/ \E x \in S : x[1] = X /\ ApplicableWith(q, x[2])}} :
                  X \in BatchKeys}

RECURSIVE RequestsFrom(_)
RequestsFrom(S) == IF RequestStep(S) = S THEN S ELSE RequestsFrom(RequestStep(S))

\* every (package, extra) pair some requester in the batch asks for
Requests == RequestsFrom({})

\* lowercase, and no separator but single "-"
IsCanonical(name) ==
    /\ \A i \in 1..Len(name) :
          /\ name[i] \notin Range(UpperCase)
          /\ name[i] \notin {".", "_"}
    /\ \A i \in 1..(Len(name) - 1) : ~(name[i] = "-" /\ name[i + 1] = "-")

NoDuplicates(s) == \A i, j \in 1..Len(s) : s[i] = s[j] => i = j

(***************************************************************************)
(* C6.  Extras augment the target.  After a successful merge: when a batch *)
(* package X has an applicable requirement P[e] and P is in the batch,     *)
(* every requirement of P whose marker is true with extra = e is in the    *)
(* depends of P; and every name in the depends of a batch package is the   *)
(* name of one of its own requirements, applicable by itself or under an   *)
(* extra that a requester asks of this package, so that X gains nothing    *)
(* from the extras of P and a package whose extras nobody requests has     *)
(* none of its extra-gated requirements.                                   *)
(***************************************************************************)
C6_ExtrasAugmentTarget ==
    Succeeded =>
        /\ \A X \in BatchKeys : \A r \in Range(RequirementsOf(X)) :
              (Applicable(r) /\ canonicalize_name(r.name) \in BatchKeys) =>
                  LET P == canonicalize_name(r.name)
                  IN \A e \in r.extras : \A q \in Range(RequirementsOf(P)) :
                        ApplicableWith(q, e) =>
                            canonicalize_name(q.name)
                                \in Range(Result.packages[P].depends)
        /\ \A k \in BatchKeys : \A n \in Range(Result.packages[k].depends) :
              \E q \in Range(RequirementsOf(k)) :
                  /\ canonicalize_name(q.name) = n
                  /\ \/ Applicable(q)
                     \/ \E x \in Requests : x[1] = k /\ ApplicableWith(q, x[2])
        /\ \A k \in BatchKeys : (~\E x \in Requests : x[1] = k) =>
              Result.packages[k].depends =
                  NamesOf(SelectSeq(RequirementsOf(k), Applicable))

\* X requires P[e]; P gained the edge of its extra e, X did not, and another
\* extra of P that nobody requests left no edge
C6_Witness ==
    /\ Succeeded
    /\ \E X \in BatchKeys : \E r \in Range(RequirementsOf(X)) :
          LET P == canonicalize_name(r.name)
          IN /\ Applicable(r) /\ P \in BatchKeys /\ P # X
             /\ \E e \in r.extras : \E q \in Range(RequirementsOf(P)) :
                   /\ ApplicableWith(q, e) /\ ~Applicable(q)
                   /\ canonicalize_name(q.name) \in Range(Result.packages[P].depends)
                   /\ canonicalize_name(q.name) \notin Range(Result.packages[X].depends)
             /\ \E q \in Range(RequirementsOf(P)) :
                   /\ q.marker # NoMarker
                   /\ canonicalize_name(q.name) \notin Range(Result.packages[P].depends)

(***************************************************************************)
(* C7.  Marker filtering in the first scan.  When the first scan of the    *)
(* batch has ended, the depends of every batch package are the canonical   *)
(* names of exactly its requirements that have no marker or whose marker   *)
(* is true in the marker environment of the lockfile info, in their order; *)
(* the worklist holds exactly those of them that carry extras; and a scan  *)
(* that fails for a missing dependency has met an applicable requirement   *)
(* that names no known package.                                            *)
(***************************************************************************)
C7_FirstScanFiltersMarkers ==
    /\ (pc = "drain" /\ expanded = <<>>) =>
          /\ \A k \in BatchKeys :
                new_packages.map[k].depends =
                    NamesOf(SelectSeq(RequirementsOf(k), Applicable))
          /\ requirements_with_extras = WithExtrasFrom(1)
    /\ (Failed /\ status = "missing dependency" /\ expanded = <<>>) =>
          \E k \in BatchKeys : \E r \in Range(RequirementsOf(k)) :
              Applicable(r) /\ ~Known(canonicalize_name(r.name))

\* the scan kept a requirement whose marker is true and dropped, without
\* error and without the override, one whose marker is false and whose name
\* names no package, and one with extras whose marker is false
C7_Witness ==
    /\ pc = "drain" /\ expanded = <<>> /\ Strict
    /\ \E k \in BatchKeys :
          /\ \E r \in Range(RequirementsOf(k)) :
                /\ r.marker # NoMarker /\ ~Applicable(r)
                /\ ~Known(canonicalize_name(r.name))
                /\ canonicalize_name(r.name) \notin Range(new_packages.map[k].depends)
          /\ \E r \in Range(RequirementsOf(k)) :
                /\ ~Applicable(r) /\ r.extras # {}
                /\ r \notin Range(requirements_with_extras)
    /\ \E k \in BatchKeys : \E r \in Range(RequirementsOf(k)) :
          /\ r.marker # NoMarker /\ Applicable(r)
          /\ canonicalize_name(r.name) \in Range(new_packages.map[k].depends)

(***************************************************************************)
(* C8.  Canonical names.  After a successful merge every key the merge     *)
(* added and every name in the depends of a new entry is lowercase with no *)
(* separator but single "-", and every applicable requirement of a new     *)
(* entry, however it is spelled, is recorded under a canonical name        *)
(* that is, without the override, a key of the result.                     *)
(***************************************************************************)
C8_CanonicalNames ==
    Succeeded =>
        /\ \A k \in DOMAIN Result.packages \ DOMAIN old.packages : IsCanonical(k)
        /\ \A k \in BatchKeys :
              /\ IsCanonical(k)
              /\ k \in DOMAIN Result.packages
              /\ IsCanonical(Result.packages[k].name)
              /\ \A n \in Range(Result.packages[k].depends) : IsCanonical(n)
              /\ \A r \in Range(RequirementsOf(k)) : Applicable(r) =>
                    \E n \in Range(Result.packages[k].depends) :
                        /\ IsCanonical(n)
                        /\ canonicalize_name(n) = canonicalize_name(r.name)
                        /\ Strict => n \in DOMAIN Result.packages

\* a requirement spelled otherwise than the key it names was resolved, and
\* an archive whose name is not canonical was stored under its canonical key
C8_Witness ==
    /\ Succeeded /\ Strict
    /\ \E k \in BatchKeys : \E r \in Range(RequirementsOf(k)) :
          /\ Applicable(r) /\ ~IsCanonical(r.name)
          /\ canonicalize_name(r.name) \in Range(Result.packages[k].depends)
          /\ canonicalize_name(r.name) \in DOMAIN old.packages
    /\ \E i \in 1..Len(call.wheel_files) :
          ~IsCanonical(_wheel_metadata(call.wheel_files[i]).name)

(***************************************************************************)
(* C9.  After a successful merge, no package's depends contains the same   *)
(* name more than once.                                                    *)
(***************************************************************************)
C9_NoDuplicateDepends ==
    Succeeded =>
        \A k \in DOMAIN Result.packages : NoDuplicates(Result.packages[k].depends)

(***************************************************************************)
(* C10.  After a successful merge, no package's depends contains the       *)
(* package's own canonical name.                                           *)
(***************************************************************************)
C10_NoSelfLoop ==
    Succeeded =>
        \A k \in DOMAIN Result.packages : k \notin Range(Result.packages[k].depends)

(***************************************************************************)
(* The operations other than a merge work on a lockfile no merge is        *)
(* running on.                                                             *)
(***************************************************************************)
MergeIdle ==
    /\ new_spec = lock
    /\ call = NoCall
    /\ pc = "idle"
    /\ idx = 0
    /\ new_packages = EmptyDict
    /\ requirements_with_extras = <<>>
    /\ status = ""
    /\ old = lock
    /\ log = <<>>
    /\ expanded = <<>>
    /\ merges = 0
    /\ origin = lock
    /\ overridden = FALSE
    /\ shared = NoSharing
    /\ cache = <<>>
    /\ replaced = <<>>
    /\ job = NoJob

merge_state ==
    <<lock, new_spec, call, pc, idx, new_packages, requirements_with_extras,
      status, old, log, expanded, merges, origin, overridden, shared,
      cache, replaced, job>>

(***************************************************************************)
(* _check_wheel_compatible alone (utils.py, lines 308-345), on every wheel *)
(* of the table and every target.                                          *)
(***************************************************************************)
CompatPaths == {Path(TRUE, Dist \o <<f>>) : f \in DOMAIN Archives}

\* the targets: each python on each platform and architecture
CompatInfos ==
    {InfoSpec(t[1], t[2], "0.24.0.dev0", python) :
        t \in {<<"wasm32", InfoExample.platform>>,
               <<"wasm64", InfoExample.platform>>,
               <<"wasm64", InfoOther.platform>>},
        python \in {<<2, 7, 18>>, <<3, 9, 18>>, <<3, 11, 3>>, <<3, 12, 0>>}}

InitCompat ==
    /\ \E path \in CompatPaths, info \in CompatInfos :
          /\ arg = [path |-> path, info |-> info]
          /\ lock = [info |-> info, packages |-> PackagesExample]
    /\ MergeIdle
    /\ ret = Nothing
    /\ disk = Nothing
    /\ io = "closed"

CheckWheelCompatible ==
    /\ ret = Nothing
    /\ ret' = Outcome(_check_wheel_compatible(arg.path, arg.info), Nothing)
    /\ UNCHANGED <<merge_state, arg, disk, io>>

NextCompat == CheckWheelCompatible

SpecCompat == InitCompat /\ [][NextCompat]_vars

\* the tags the file name of the wheel carries
TagsOf(path) == parse_wheel_filename(Last(path.parts)).tags

\* (a): interpreter and abi are cp<major><minor> of the target, the platform
\* is the target's
ExactTag(t, info) ==
    /\ t.interpreter.impl = "cp"
    /\ t.interpreter.digits = Digits(info.python[1]) \o Digits(info.python[2])
    /\ t.abi = t.interpreter
    /\ t.platform = info.platform \o <<"_">> \o <<info.arch>>

\* (b): abi none, platform any, py<major> followed by nothing or by a minor
\* number that is at most the target's
PureTag(t, info) ==
    /\ t.abi.impl = "none" /\ t.abi.digits = <<>>
    /\ t.platform = <<"any">>
    /\ t.interpreter.impl = "py"
    /\ \E n \in 0..Len(t.interpreter.digits) :
          /\ SubSeq(t.interpreter.digits, 1, n) = Digits(info.python[1])
          /\ \/ n = Len(t.interpreter.digits)
             \/ IntOfDigits(SubSeq(t.interpreter.digits, n + 1,
                                   Len(t.interpreter.digits))) <= info.python[2]

(***************************************************************************)
(* C11.  The compatibility check accepts a wheel if and only if one of its *)
(* tags is (a) cp<major><minor> in interpreter and abi on the platform     *)
(* info.platform + "_" + info.arch, or (b) py<major>, with no minor or a   *)
(* minor at most the target's, abi none, platform any; otherwise it        *)
(* raises.  A linux_x86_64 wheel is rejected for emscripten_3_1_39 and     *)
(* wasm32; py3-none-any and py2.py3-none-any are accepted for every target *)
(* of major version 3.                                                     *)
(***************************************************************************)
C11_CompatibleIffTagMatches ==
    ret # Nothing =>
        /\ ret.error = "" <=>
              /\ parse_wheel_filename(Last(arg.path.parts)).valid
              /\ \E t \in TagsOf(arg.path) :
                    ExactTag(t, arg.info) \/ PureTag(t, arg.info)
        /\ (Last(arg.path.parts) = F_linux /\ arg.info = InfoExample) =>
              ret.error # ""
        /\ (Last(arg.path.parts) \in {F_py_one, F_test_extra}
               /\ arg.info.python[1] = 3) => ret.error = ""

\* a wheel was accepted for its cp tag alone
C11_Witness ==
    /\ ret # Nothing /\ ret.error = ""
    /\ \E t \in TagsOf(arg.path) : ExactTag(t, arg.info)
    /\ ~\E t \in TagsOf(arg.path) : PureTag(t, arg.info)

(***************************************************************************)
(* C12.  Upsert.  After a successful merge the keys of the result are the  *)
(* old keys and the canonical names of the archives of the batch, and the  *)
(* entry of every name of the batch is the one built from its archive,     *)
(* whatever entry of that name the lockfile held and whatever its version. *)
(***************************************************************************)
C12_UpsertUnion ==
    Succeeded =>
        /\ DOMAIN Result.packages =
              DOMAIN old.packages \cup {NameAt(i) : i \in 1..Len(call.wheel_files)}
        /\ \A i \in 1..Len(call.wheel_files) :
              LET k == NameAt(i)
                  entry == Result.packages[k]
              IN /\ entry = new_packages.map[k]
                 /\ entry.name = k
                 /\ entry.version = _wheel_metadata(SourceOf(k)).version
                 /\ entry.sha256 = _generate_package_hash(SourceOf(k))
                 /\ entry.imports = parse_top_level_import_name(SourceOf(k))

\* the batch replaced an entry of a later version by the one it built
C12_Witness ==
    /\ Succeeded
    /\ \E k \in BatchKeys \cap DOMAIN old.packages :
          /\ VersionLess(Result.packages[k].version, old.packages[k].version)
          /\ Result.packages[k].sha256 # old.packages[k].sha256
    /\ \E k \in DOMAIN old.packages : k \notin BatchKeys

(***************************************************************************)
(* C13.  Frame.  A successful merge leaves the info block as it was, and   *)
(* every entry the lockfile held whose name is no key of the batch equal   *)
(* in every field, depends included: an extra requested on a package       *)
(* outside the batch adds no edge to it.                                   *)
(***************************************************************************)
C13_OtherEntriesUnchanged ==
    Succeeded =>
        /\ Result.info = old.info
        /\ \A k \in DOMAIN old.packages \ BatchKeys :
              /\ k \in DOMAIN Result.packages
              /\ Result.packages[k] = old.packages[k]

\* the batch requested the extra with_one of needs-one-opt, which an earlier
\* merge had added: its entry kept its empty depends
C13_Witness ==
    /\ Succeeded
    /\ n_opt \in DOMAIN old.packages \ BatchKeys
    /\ \E X \in BatchKeys : \E r \in Range(RequirementsOf(X)) :
          /\ Applicable(r) /\ <<"with_one">> \in r.extras
          /\ canonicalize_name(r.name) = n_opt
    /\ \E q \in Range(_wheel_depends(Archives[F_opt].metadata)) :
          ApplicableWith(q, <<"with_one">>)
    /\ Result.packages[n_opt].depends = <<>>

(***************************************************************************)
(* add_wheels_to_spec followed by a change the caller makes to the         *)
(* lockfile it returned: UvPipCompile.postprocess_spec removes excluded    *)
(* names from the depends lists of the result, in place                    *)
(* (uv_pip_compile.py, lines 174-179, 352-362, 383-388).                   *)
(***************************************************************************)
\* list.remove: the first occurrence goes, a list without x stays as it is
RECURSIVE ListRemove(_, _)
ListRemove(list, x) ==
    IF list = <<>> THEN <<>>
    ELSE IF Head(list) = x THEN Tail(list)
    ELSE <<Head(list)>> \o ListRemove(Tail(list), x)

\* the package map after remove_depends(dep_name, lock_spec)
remove_depends(dep_name, packages) ==
    [k \in DOMAIN packages |->
        [packages[k] EXCEPT !.depends = ListRemove(@, dep_name)]]

\* the batches add_wheels_to_spec is called with, the empty one among them
CopyBatches == SeqBatches \cup {<<>>}

\* the names a caller excludes
Excludes == {n_gone, n_py_one, n_two}

AddWheelsToSpec ==
    /\ pc = "idle"
    /\ \E wheel_files \in CopyBatches, ignore_missing_dependencies \in BOOLEAN :
          StartMerge("add_wheels_to_spec", wheel_files, NoPath, <<>>,
                     ignore_missing_dependencies)

\* an entry of the result is changed in place: the input sees the change
\* through every entry object the two lockfiles have in common
RemoveDepends ==
    /\ pc = "done" /\ status = "ok"
    /\ \E dep_name \in Excludes :
          /\ new_spec' = [new_spec EXCEPT !.packages = remove_depends(dep_name, @)]
          /\ lock' = [lock EXCEPT !.packages =
                [k \in DOMAIN @ |->
                    IF k \in shared.entries
                    THEN remove_depends(dep_name, lock.packages)[k]
                    ELSE @[k]]]
    /\ pc' = "changed"
    /\ UNCHANGED <<call, idx, new_packages, requirements_with_extras, status, old,
                   log, expanded, history, aside, cache>>

NextCopy ==
    \/ AddWheelsToSpec
    \/ FromWheel
    \/ ScanNext
    \/ Drain
    \/ SetPackagePaths
    \/ MergeNewPackages
    \/ RemoveDepends

SpecCopy == Init /\ [][NextCopy]_vars

(***************************************************************************)
(* C14.  add_wheels_to_spec never mutates its input: from the call on, on  *)
(* success, on failure and on the empty batch, the caller's lockfile is    *)
(* what it was at the call, the lockfile returned has no object in common  *)
(* with it, and a later change to the result leaves the input as it was.   *)
(***************************************************************************)
C14_InputNotMutated ==
    (pc # "idle" /\ call.api = "add_wheels_to_spec") =>
        /\ lock = old
        /\ shared = NoSharing

\* an entry the input also holds was changed in the returned lockfile
C14_Witness ==
    /\ pc = "changed"
    /\ BatchKeys # {}
    /\ \E k \in DOMAIN old.packages :
          /\ new_spec.packages[k].depends # old.packages[k].depends
          /\ lock.packages[k] = old.packages[k]

(***************************************************************************)
(* Merges with every placement: archives in several directories, two of    *)
(* them copies of one wheel, and base paths given or not, absolute or      *)
(* relative to the working directory (test_wheel.py, lines 171-195).       *)
(***************************************************************************)
P_py_one       == Path(FALSE, <<"dist", F_py_one>>)
P_py_one_other == Path(TRUE, Other \o <<F_py_one>>)
P_needs_one    == Path(TRUE, Dist \o <<F_needs_one>>)
P_twice        == Path(TRUE, Other \o <<F_twice>>)

PathBatches ==
    { <<P_py_one>>,
      <<P_needs_one, P_py_one>>,
      <<P_py_one, P_twice>>,
      <<P_twice, P_py_one>>,
      <<P_py_one_other, P_py_one>>,
      <<P_py_one, P_py_one_other>>,
      <<P_py_one_other, P_twice>>,
      <<Path(TRUE, Dist \o <<F_opt>>), Path(TRUE, Dist \o <<F_test_extra>>)>> }

PathPlacements ==
    Placements
    \cup { <<Path(TRUE, Dist), <<>>>>,
           <<Path(FALSE, <<"dist">>), <<"http://www.nowhere.org/">>>>,
           <<Path(TRUE, Other), <<"wheels/">>>>,
           <<Path(TRUE, <<>>), <<>>>> }

AddWheelsPlaced ==
    /\ pc = "idle"
    /\ \E api \in Apis, wheel_files \in PathBatches, placement \in PathPlacements,
          ignore_missing_dependencies \in BOOLEAN :
          StartMerge(api, wheel_files, placement[1], placement[2],
                     ignore_missing_dependencies)

NextPaths ==
    \/ AddWheelsPlaced
    \/ FromWheel
    \/ ScanNext
    \/ Drain
    \/ SetPackagePaths
    \/ MergeNewPackages

SpecPaths == Init /\ [][NextPaths]_vars

\* the components of the absolute path an argument resolves to
AbsoluteParts(path) == IF path.abs THEN path.parts ELSE Cwd \o path.parts

\* the base path of the call: the one given, else the directory of the
\* first archive
BaseParts ==
    IF arg.base_path = NoPath
    THEN Front(AbsoluteParts(arg.wheel_files[1]))
    ELSE AbsoluteParts(arg.base_path)

\* the archive at place i is under the base path
UnderBase(i) ==
    LET parts == AbsoluteParts(arg.wheel_files[i])
    IN /\ Len(parts) >= Len(BaseParts)
       /\ SubSeq(parts, 1, Len(BaseParts)) = BaseParts

\* the archive at place i is the last of its canonical name in the batch
IsLastOfName(i) ==
    \A j \in (i + 1)..Len(arg.wheel_files) : NameAt(j) # NameAt(i)

\* the text of the relative path: its components joined by "/"
RECURSIVE Joined(_)
Joined(parts) ==
    IF parts = <<>> THEN <<>>
    ELSE IF Len(parts) = 1 THEN parts
    ELSE <<parts[1], "/">> \o Joined(Tail(parts))

(***************************************************************************)
(* C15.  After a successful merge with base path B and base URL U the      *)
(* file_name of every new entry is U followed, with nothing between, by    *)
(* the path of its archive relative to B, both resolved; B is the          *)
(* directory of the first archive of the batch when the caller gives none. *)
(***************************************************************************)
C15_FileNameIsUrlPlusRelativePath ==
    Succeeded =>
        \A i \in 1..Len(arg.wheel_files) : IsLastOfName(i) =>
            LET parts == AbsoluteParts(arg.wheel_files[i])
            IN Result.packages[NameAt(i)].file_name =
                  arg.base_url
                  \o Joined(SubSeq(parts, Len(BaseParts) + 1, Len(parts)))

\* a wheel given by a relative path was stored under the URL with the
\* directory that lies between the base path and the wheel
C15_Witness ==
    /\ Succeeded
    /\ ~arg.wheel_files[1].abs
    /\ Result.packages[n_py_one].file_name =
          <<"http://www.nowhere.org/", "dist", "/", F_py_one>>

(***************************************************************************)
(* C16.  As stated: if any archive of the batch resolves to a path that is *)
(* not a descendant of the base path, the merge fails and no entry of the  *)
(* batch is added.                                                         *)
(***************************************************************************)
C16_AnyArchiveOutsideBaseFails ==
    (pc = "done" /\ \E i \in 1..Len(arg.wheel_files) : ~UnderBase(i)) =>
        /\ Failed
        /\ lock = old
        /\ Result = old

(***************************************************************************)
(* C16, amended: if an archive whose entry is in the batch map (of the     *)
(* archives of one canonical name, the last) resolves to a path that is    *)
(* not a descendant of the base path, the merge fails and no entry of the  *)
(* batch is added; an archive whose entry a later archive of the same name *)
(* replaced is not looked at.                                              *)
(***************************************************************************)
C16_KeptArchiveOutsideBaseFails ==
    (pc = "done"
       /\ \E i \in 1..Len(arg.wheel_files) : IsLastOfName(i) /\ ~UnderBase(i)) =>
        /\ Failed
        /\ lock = old
        /\ Result = old

\* no base path was given, the second archive is in another directory than
\* the first, and the merge failed on the paths after both were processed
C16_Witness ==
    /\ Failed /\ status = "path not under base path"
    /\ arg.base_path = NoPath
    /\ Len(arg.wheel_files) = 2 /\ UnderBase(1) /\ ~UnderBase(2)
    /\ Cardinality(BatchKeys) = 2
    /\ lock = old

(***************************************************************************)
(* spec.py, check_wheel_filenames (lines 144-175).                         *)
(*                                                                         *)
(* A file_name is a sequence of tokens; the last one is the file's name.   *)
(* parse_wheel_filename is given the whole text: it accepts a lone         *)
(* well-formed wheel name and raises InvalidWheelFilename on a text with a *)
(* URL or a directory before the name, since the project name part may     *)
(* hold letters, digits, "." and "_" only.                                 *)
(***************************************************************************)
F_numpy   == "numpy-1.24.3-cp311-cp311-emscripten_3_1_39_wasm32.whl"
F_tarball == "distutils-1.0.0.tar"

\* what the name of a file says: whether it ends with ".whl", and the
\* project name and version before the tags
FileNames ==
    (F_numpy :> [whl |-> TRUE, name |-> n_numpy, version |-> <<1, 24, 3>>])
 @@ (F_py_one :> [whl |-> TRUE, name |-> <<"p", "y", "_", "o", "n", "e">>,
                  version |-> <<1, 0, 0>>])
 @@ (F_tarball :> [whl |-> FALSE, name |-> <<>>, version |-> <<>>])

\* spec.file_name.endswith(".whl")
EndsWithWhl(file_name) == file_name # <<>> /\ FileNames[Last(file_name)].whl

\* parse_wheel_filename(spec.file_name) does not raise
ParsesAsWheel(file_name) == Len(file_name) = 1 /\ FileNames[file_name[1]].whl

\* canonicalize_version: trailing zero components are dropped
RECURSIVE canonicalize_version(_)
canonicalize_version(version) ==
    IF version # <<>> /\ Last(version) = 0
    THEN canonicalize_version(Front(version))
    ELSE version

Mismatch(kind, in_wheel, in_entry) ==
    [kind |-> kind, in_wheel |-> in_wheel, in_entry |-> in_entry]

\* the messages appended to errors[name] for one entry that parses
EntryErrors(spec) ==
    LET parsed == FileNames[spec.file_name[1]]
    IN (IF canonicalize_name(parsed.name) # canonicalize_name(spec.name)
        THEN <<Mismatch("name", parsed.name, spec.name)>> ELSE <<>>)
       \o (IF canonicalize_version(parsed.version) # canonicalize_version(spec.version)
           THEN <<Mismatch("version", canonicalize_version(parsed.version),
                           canonicalize_version(spec.version))>>
           ELSE <<>>)

\* "for name, spec in self.packages.items()", in the order of the dict
RECURSIVE CheckEntries(_, _, _)
CheckEntries(packages, order, errors) ==
    IF order = <<>> THEN Outcome("", errors)
    ELSE LET name == Head(order)
             spec == packages[name]
         IN IF ~EndsWithWhl(spec.file_name)
            THEN CheckEntries(packages, Tail(order), errors)
            ELSE IF ~ParsesAsWheel(spec.file_name)
            THEN Outcome("InvalidWheelFilename", errors)
            ELSE CheckEntries(packages, Tail(order),
                    IF EntryErrors(spec) = <<>> THEN errors
                    ELSE errors @@ (name :> EntryErrors(spec)))

\* the exception raised, with the errors it lists, or "" and no errors
check_wheel_filenames(lock_spec, order) ==
    LET checked == CheckEntries(lock_spec.packages, order, <<>>)
    IN IF checked.error # "" THEN Outcome(checked.error, <<>>)
       ELSE IF DOMAIN checked.value # {}
       THEN Outcome("check_wheel_filenames failed", checked.value)
       ELSE Outcome("", <<>>)

\* the entries of the lockfiles checked: numpy as in the tests, with the
\* name, the version or both changed; py-one as a merge stores it, alone,
\* under a URL or under a directory; an entry that is no wheel
NumpyEntries ==
    {PackageSpec(name, version, <<F_numpy>>, <<"513af43f">>, <<"numpy">>, <<>>) :
        name \in {n_numpy, <<"n", "u", "m", "p", "y", "2">>, <<"N", "u", "m", "P", "y">>},
        version \in {<<1, 24, 3>>, <<0, 2, 3>>, <<1, 24, 3, 0>>}}

PyOneEntries ==
    {PackageSpec(n_py_one, version, file_name, <<"0ld0ld">>, <<"one">>, <<>>) :
        version \in {<<1, 0, 0>>, <<2, 0, 0>>},
        file_name \in {<<F_py_one>>, <<"http://www.nowhere.org/", F_py_one>>,
                       <<"dist", "/", F_py_one>>}}

TarballEntries ==
    {PackageSpec(name, <<3, 11, 3>>, <<F_tarball>>, <<"7a4ba1">>, <<"distutils">>, <<>>) :
        name \in {<<"d", "i", "s", "t", "u", "t", "i", "l", "s">>, n_legacy}}

NamedLocks ==
    {[info |-> InfoExample, packages |-> (n_numpy :> a) @@ p] :
        a \in NumpyEntries,
        p \in {<<>>} \cup {(n_py_one :> b) : b \in PyOneEntries}
              \cup {(n_legacy :> c) : c \in TarballEntries}
              \cup {(n_py_one :> b) @@ (n_legacy :> c) :
                        b \in PyOneEntries, c \in TarballEntries}}

InitNames ==
    /\ lock \in NamedLocks
    /\ MergeIdle
    /\ arg = NoCall
    /\ ret = Nothing
    /\ disk = Nothing
    /\ io = "closed"

CheckWheelFilenames ==
    /\ ret = Nothing
    /\ \E order \in Orders(DOMAIN lock.packages) :
          ret' = check_wheel_filenames(lock, order)
    /\ UNCHANGED <<merge_state, arg, disk, io>>

NextNames == CheckWheelFilenames

SpecNames == InitNames /\ [][NextNames]_vars

\* an entry whose file_name is the name of a wheel, with nothing before it
IsWheelFilename(file_name) ==
    /\ Len(file_name) = 1
    /\ file_name[1] \in {F_numpy, F_py_one}

\* the discrepancies of an entry: its name or version as the lockfile has
\* it is not the one of its wheel file name
Discrepancies(spec) ==
    {kind \in {"name", "version"} :
        /\ IsWheelFilename(spec.file_name)
        /\ \/ /\ kind = "name"
              /\ canonicalize_name(FileNames[spec.file_name[1]].name)
                    # canonicalize_name(spec.name)
           \/ /\ kind = "version"
              /\ canonicalize_version(FileNames[spec.file_name[1]].version)
                    # canonicalize_version(spec.version)}

(***************************************************************************)
(* C17.  check_wheel_filenames looks at every entry whose file_name is a   *)
(* wheel file name.  When some name or version disagrees it fails once,    *)
(* with an error that lists every discrepancy of every entry, one line     *)
(* each; when nothing disagrees it returns without error; the lockfile is  *)
(* never modified.                                                         *)
(***************************************************************************)
C17_AllMismatchesCollected ==
    ret # Nothing =>
        /\ lock = old
        /\ IF \A k \in DOMAIN lock.packages : Discrepancies(lock.packages[k]) = {}
           THEN ret.error = ""
           ELSE /\ ret.error = "check_wheel_filenames failed"
                /\ DOMAIN ret.value =
                      {k \in DOMAIN lock.packages :
                          Discrepancies(lock.packages[k]) # {}}
                /\ \A k \in DOMAIN ret.value :
                      /\ Len(ret.value[k]) = Cardinality(Discrepancies(lock.packages[k]))
                      /\ {ret.value[k][i].kind : i \in 1..Len(ret.value[k])}
                            = Discrepancies(lock.packages[k])

(***************************************************************************)
(* spec.py: the schema (lines 20-46, 123-130), from_json and to_json       *)
(* (lines 132-142).                                                        *)
(*                                                                         *)
(* A JSON text is a sequence of tokens: the opening brace, one leaf for    *)
(* every value with the keys that lead to it, the keys of every object in  *)
(* sorted order, a line break with its indentation before each leaf when   *)
(* an indent is given, and the closing brace.  The braces of the inner     *)
(* objects are left out; an empty packages object is a leaf of its own.    *)
(***************************************************************************)
Token(kind, path, value) == [kind |-> kind, path |-> path, value |-> value]

\* the keys of the schema and of the tests as sort_keys=True orders them
SortedKeyNames ==
    <<"arch", "depends", "extra", "file_name", "imports", "info",
      "install_dir", "name", "package_type", "packages", "platform",
      "python", "sha256", "shared_library", "unvendored_tests", "version">>

SortKeys(keys) == SelectSeq(SortedKeyNames, LAMBDA k : k \in keys)

\* the characters of package names and of requirement specs in the order of
\* their code points
CodePoints ==
    <<" ", "-", ".", "0", "1", "2", "3", "4", "5", "6", "7", "8", "9",
      "<", "=", ">", "@">>
        \o UpperCase \o <<"_">> \o LowerCase

Ord(c) == CHOOSE i \in 1..Len(CodePoints) : CodePoints[i] = c

RECURSIVE StrLess(_, _)
StrLess(a, b) ==
    IF a = <<>> THEN b # <<>>
    ELSE IF b = <<>> THEN FALSE
    ELSE IF Head(a) = Head(b) THEN StrLess(Tail(a), Tail(b))
    ELSE Ord(Head(a)) < Ord(Head(b))

SortNames(names) ==
    CHOOSE o \in Orders(names) : \A i \in 1..(Len(o) - 1) : StrLess(o[i], o[i + 1])

\* the leaves of an object of plain values that lies under the keys before
ObjectLeaves(before, object) ==
    LET keys == SortKeys(DOMAIN object)
    IN [i \in 1..Len(keys) |-> Token("leaf", before \o <<keys[i]>>, object[keys[i]])]

RECURSIVE PackagesLeaves(_, _)
PackagesLeaves(packages, names) ==
    IF names = <<>> THEN <<>>
    ELSE ObjectLeaves(<<"packages", Head(names)>>, packages[Head(names)])
            \o PackagesLeaves(packages, Tail(names))

RECURSIVE TopLeaves(_, _)
TopLeaves(data, keys) ==
    IF keys = <<>> THEN <<>>
    ELSE LET k == Head(keys)
         IN (IF k = "info" THEN ObjectLeaves(<<"info">>, data.info)
             ELSE IF k = "packages"
             THEN IF DOMAIN data.packages = {}
                  THEN <<Token("leaf", <<"packages">>, <<>>)>>
                  ELSE PackagesLeaves(data.packages, SortNames(DOMAIN data.packages))
             ELSE <<Token("leaf", <<k>>, data[k])>>)
            \o TopLeaves(data, Tail(keys))

\* indent=None, 0 and 2
NoIndent == <<>>

Indents == {NoIndent, <<0>>, <<2>>}

RECURSIVE Indented(_, _)
Indented(leaves, indent) ==
    IF indent = NoIndent THEN leaves
    ELSE IF leaves = <<>> THEN <<Token("nl", <<>>, 0)>>
    ELSE <<Token("nl", <<>>, indent[1] * Len(Head(leaves).path)), Head(leaves)>>
            \o Indented(Tail(leaves), indent)

\* json.dumps(data, indent=indent, sort_keys=True)
dumps(data, indent) ==
    <<Token("{", <<>>, 0)>>
        \o Indented(TopLeaves(data, SortKeys(DOMAIN data)), indent)
        \o <<Token("}", <<>>, 0)>>

\* faulty variant: the hashes of the entries are not written
ModelJsonWithoutHashes(self, indent) ==
    dumps([self EXCEPT !.packages =
              [n \in DOMAIN self.packages |->
                  [f \in DOMAIN self.packages[n] \ {"sha256"} |-> self.packages[n][f]]]],
          indent)

\* self.json(indent=indent, sort_keys=True): every field of the object,
\* the defaults included
ModelJson(self, indent) == dumps(self, indent)

\* a text json.load accepts: a complete document
WellFormed(text) ==
    /\ Len(text) >= 2
    /\ text[1].kind = "{"
    /\ Last(text).kind = "}"
    /\ \A i \in 2..(Len(text) - 1) : text[i].kind \in {"leaf", "nl"}

\* the nested dicts of the leaves
Nested(leaves) ==
    LET at(m) == {i \in 1..Len(leaves) : Len(leaves[i].path) = m}
        under(m, before) ==
            {i \in at(m) : SubSeq(leaves[i].path, 1, Len(before)) = before}
        value(path) ==
            leaves[CHOOSE i \in at(Len(path)) : leaves[i].path = path].value
    IN [k \in {leaves[i].path[1] : i \in 1..Len(leaves)} |->
           IF k = "info"
           THEN [f \in {leaves[i].path[2] : i \in under(2, <<"info">>)} |->
                    value(<<"info", f>>)]
           ELSE IF k = "packages"
           THEN [n \in {leaves[i].path[2] : i \in under(3, <<"packages">>)} |->
                    [f \in {leaves[i].path[3] : i \in under(3, <<"packages", n>>)} |->
                        value(<<"packages", n, f>>)]]
           ELSE value(<<k>>)]

\* json.load(fh): the data, or JSONDecodeError
loads(text) ==
    IF WellFormed(text)
    THEN Outcome("", Nested(SelectSeq(text, LAMBDA t : t.kind = "leaf")))
    ELSE Outcome("JSONDecodeError", Nothing)

TopFields == {"info", "packages"}

InfoFields == {"arch", "platform", "version", "python"}

InfoRequired == {"platform", "version", "python"}

InfoDefaults == [arch |-> "wasm32"]

PackageFields ==
    {"name", "version", "file_name", "install_dir", "sha256", "package_type",
     "imports", "depends", "unvendored_tests", "shared_library"}

PackageRequired == {"name", "version", "file_name", "install_dir"}

PackageDefaults ==
    [sha256 |-> <<>>, package_type |-> "package", imports |-> <<>>,
     depends |-> <<>>, unvendored_tests |-> FALSE, shared_library |-> FALSE]

\* faulty variant: extra = Extra.ignore
ExtraIgnored(object, fields) == TRUE

\* class Config: extra = Extra.forbid
ExtraForbidden(object, fields) == DOMAIN object \subseteq fields

\* the fields of the model: the given ones, the defaults for the others
Validated(object, fields, defaults) ==
    [f \in (DOMAIN object \cap fields) \cup DOMAIN defaults |->
        IF f \in DOMAIN object THEN object[f] ELSE defaults[f]]

ValidInfo(object) ==
    /\ ExtraForbidden(object, InfoFields)
    /\ InfoRequired \subseteq DOMAIN object
    /\ Validated(object, InfoFields, InfoDefaults).arch \in {"wasm32", "wasm64"}

ValidPackage(object) ==
    /\ ExtraForbidden(object, PackageFields)
    /\ PackageRequired \subseteq DOMAIN object
    /\ Validated(object, PackageFields, PackageDefaults).package_type
          \in {"package", "cpython_module", "shared_library", "static_library"}

\* PyodideLockSpec(**data): the object, or ValidationError
PyodideLockSpec(data) ==
    IF /\ ExtraForbidden(data, TopFields)
       /\ TopFields \subseteq DOMAIN data
       /\ ValidInfo(data.info)
       /\ \A n \in DOMAIN data.packages : ValidPackage(data.packages[n])
    THEN Outcome("",
            [info |-> Validated(data.info, InfoFields, InfoDefaults),
             packages |->
                [n \in DOMAIN data.packages |->
                    Validated(data.packages[n], PackageFields, PackageDefaults)]])
    ELSE Outcome("ValidationError", Nothing)

from_json(text) ==
    LET data == loads(text)
    IN IF data.error # "" THEN data ELSE PyodideLockSpec(data.value)

(***************************************************************************)
(* Constructing, reading and writing lockfiles.                            *)
(*   lock   the lockfile object that is written                            *)
(*   disk   the text of the file at the path read and written; to_json on  *)
(*          the path from_json read is _update without an output_path      *)
(*          (uv_pip_compile.py, lines 157 and 160)                         *)
(*   io     "closed", "open" once path.open("w") has truncated the file,   *)
(*          "written" when to_json has returned, "failed" when it raised   *)
(*   arg    the call: its indent and the text the file held before it, or  *)
(*          the data given to the constructor                              *)
(*   ret    what the constructor or from_json gave                         *)
(***************************************************************************)
JsonCall(op, indent, previous, data) ==
    [op |-> op, indent |-> indent, previous |-> previous, data |-> data]

NoJsonCall == JsonCall("", NoIndent, <<>>, <<>>)

JsonLocks == InitialLocks \cup {[info |-> InfoExample, packages |-> <<>>]}

LockExample == [info |-> InfoExample, packages |-> PackagesExample]

Only(object, fields) == [f \in fields |-> object[f]]

\* the data of the tests: valid lockfiles, LOCK_EXAMPLE with a field "extra"
\* at each level, with the optional fields left out, with a required field
\* left out, with an arch outside the Literal
JsonData ==
    JsonLocks
    \cup { ("extra" :> "extra") @@ LockExample,
           [LockExample EXCEPT !.info = ("extra" :> "extra") @@ @],
           [LockExample EXCEPT !.packages[n_numpy] = ("extra" :> "extra") @@ @],
           [info |-> Only(InfoExample, InfoRequired),
            packages |-> (n_numpy :> Only(NumpyEntry, PackageRequired))],
           [LockExample EXCEPT !.packages[n_numpy] =
               Only(NumpyEntry, PackageFields \ {"install_dir"})],
           [LockExample EXCEPT !.info.arch = "wasm16"],
           Only(LockExample, {"info"}) }

JsonTexts == {dumps(data, indent) : data \in JsonData, indent \in Indents}

InitJson ==
    /\ lock \in JsonLocks
    /\ MergeIdle
    /\ arg = NoJsonCall
    /\ ret = Nothing
    /\ disk \in JsonTexts
    /\ io = "closed"

\* PyodideLockSpec(**data)
Construct ==
    /\ io = "closed" /\ ret = Nothing /\ arg = NoJsonCall
    /\ \E data \in JsonData :
          /\ arg' = JsonCall("construct", NoIndent, <<>>, data)
          /\ ret' = PyodideLockSpec(data)
    /\ UNCHANGED <<merge_state, disk, io>>

\* PyodideLockSpec.from_json(path)
FromJson ==
    /\ io # "open" /\ ret = Nothing
    /\ ret' = from_json(disk)
    /\ UNCHANGED <<merge_state, arg, disk, io>>

\* to_json: path.open("w", encoding="utf-8") truncates the file
ToJsonOpen ==
    /\ io = "closed" /\ ret = Nothing
    /\ \E indent \in Indents : arg' = JsonCall("to_json", indent, disk, <<>>)
    /\ disk' = <<>>
    /\ io' = "open"
    /\ UNCHANGED <<merge_state, ret>>

\* self.json(indent=indent, sort_keys=True) raises: pydantic 2 takes no
\* keyword arguments for json.dumps; the file is closed as it is
ToJsonSerializeFails ==
    /\ io = "open"
    /\ io' = "failed"
    /\ UNCHANGED <<merge_state, arg, ret, disk>>

\* fh.write(text) and the end of the with block
ToJsonWrite ==
    /\ io = "open"
    /\ disk' = ModelJson(lock, arg.indent)
    /\ io' = "written"
    /\ UNCHANGED <<merge_state, arg, ret>>

\* the write or the flush at the end of the with block fails part-way
ToJsonWriteFails ==
    /\ io = "open"
    /\ \E k \in 1..(Len(ModelJson(lock, arg.indent)) - 1) :
          disk' = SubSeq(ModelJson(lock, arg.indent), 1, k)
    /\ io' = "failed"
    /\ UNCHANGED <<merge_state, arg, ret>>

NextJson ==
    \/ Construct
    \/ FromJson
    \/ ToJsonOpen
    \/ ToJsonSerializeFails
    \/ ToJsonWrite
    \/ ToJsonWriteFails

SpecJson == InitJson /\ [][NextJson]_vars

Input == IF arg.op = "construct" THEN arg.data ELSE loads(disk).value

HasUnknownField(data) ==
    \/ \E f \in DOMAIN data : f \notin TopFields
    \/ /\ "info" \in DOMAIN data
       /\ \E f \in DOMAIN data.info : f \notin InfoFields
    \/ /\ "packages" \in DOMAIN data
       /\ \E n \in DOMAIN data.packages :
             \E f \in DOMAIN data.packages[n] : f \notin PackageFields

(***************************************************************************)
(* C19.  Data with a field outside the schema, at the top level, in info   *)
(* or in a package entry, given to the constructor or read from a file, is *)
(* rejected with a validation error and no lockfile object is produced.    *)
(***************************************************************************)
C19_UnknownFieldRejected ==
    (/\ ret # Nothing
     /\ arg.op = "construct" \/ loads(disk).error = ""
     /\ HasUnknownField(Input)) =>
        /\ ret.error = "ValidationError"
        /\ ret.value = Nothing

C19_Witness ==
    /\ ret # Nothing
    /\ arg.op # "construct"
    /\ loads(disk).error = ""
    /\ "packages" \in DOMAIN Input
    /\ \E n \in DOMAIN Input.packages : "extra" \in DOMAIN Input.packages[n]
    /\ ret.error = "ValidationError"

(***************************************************************************)
(* C20.  Writing a lockfile is atomic: at every point of to_json, a        *)
(* failure of the serialization or of the write included, the file holds   *)
(* the complete text it held before or the complete new document.          *)
(***************************************************************************)
C20_WriteIsAtomic ==
    arg.op = "to_json" =>
        \/ disk = arg.previous
        \/ disk = ModelJson(lock, arg.indent)

(***************************************************************************)
(* Merges of batches whose extras refer to each other (utils.py, lines     *)
(* 242-296): a cycle through two packages, a package whose extra requires  *)
(* the package itself, a requirement with two extras, a requirement with   *)
(* an extra on a package that is a dependency already.                     *)
(***************************************************************************)
LinkedBatches ==
    { <<Path(TRUE, Dist \o <<F_cyc_a>>), Path(TRUE, Dist \o <<F_cyc_b>>)>>,
      <<Path(TRUE, Dist \o <<F_cyc_b>>), Path(TRUE, Dist \o <<F_cyc_a>>)>>,
      <<Path(TRUE, Dist \o <<F_wants>>), Path(TRUE, Dist \o <<F_bundle>>)>>,
      <<Path(TRUE, Dist \o <<F_bundle>>)>>,
      <<Path(TRUE, Dist \o <<F_pick>>), Path(TRUE, Dist \o <<F_hub>>),
        Path(TRUE, Dist \o <<F_leaf>>)>>,
      <<Path(TRUE, Dist \o <<F_root>>), Path(TRUE, Dist \o <<F_mid>>),
        Path(TRUE, Dist \o <<F_leaf>>)>>,
      <<Path(TRUE, Dist \o <<F_wants_opt>>), Path(TRUE, Dist \o <<F_opt>>),
        Path(FALSE, <<"dist", F_py_one>>)>>,
      <<Path(TRUE, Dist \o <<F_test_extra>>), Path(TRUE, Dist \o <<F_opt>>),
        Path(FALSE, <<"dist", F_py_one>>)>> }

AddWheelsLinked ==
    /\ pc = "idle"
    /\ merges = 0
    /\ \E api \in Apis, wheel_files \in LinkedBatches,
          ignore_missing_dependencies \in BOOLEAN :
          StartMerge(api, wheel_files, NoPath, <<>>, ignore_missing_dependencies)

NextLinked ==
    \/ AddWheelsLinked
    \/ FromWheel
    \/ ScanNext
    \/ Drain
    \/ SetPackagePaths
    \/ MergeNewPackages
    \/ Return

SpecLinked == Init /\ [][NextLinked]_vars

\* a call that has started runs to its end: weak fairness of the steps of
\* the call, which are enabled exactly while pc is not "idle"
SpecLinkedFair == SpecLinked /\ ([]<>(pc = "idle") \/ []<><<TRUE>>_vars)

\* the names a batch package may still gain: those of its requirements that
\* its depends does not hold
RECURSIVE StillToGain(_)
StillToGain(i) ==
    IF i > Len(new_packages.order) THEN 0
    ELSE Cardinality(Range(NamesOf(RequirementsOf(new_packages.order[i])))
                     \ Range(new_packages.map[new_packages.order[i]].depends))
         + StillToGain(i + 1)

\* the number of names the requirements of the batch packages hold
RECURSIVE NamesRequired(_)
NamesRequired(i) ==
    IF i > Len(new_packages.order) THEN 0
    ELSE Cardinality(Range(NamesOf(RequirementsOf(new_packages.order[i]))))
         + NamesRequired(i + 1)

\* every turn of the loop takes one requirement from the worklist and adds
\* as many as it adds names to the depends of a batch package
TurnsBounded ==
    pc = "drain" =>
        Len(expanded) + Len(requirements_with_extras) + StillToGain(1)
            <= Len(WithExtrasFrom(1)) + NamesRequired(1)

(***************************************************************************)
(* C21.  The drain of the worklist terminates for every batch, those with  *)
(* extras that refer to each other in a cycle and those where the extra of *)
(* a package requires the package itself included: the turns made, the     *)
(* requirements pending and the names the batch packages may still gain    *)
(* never exceed together what the batch holds at the start, and a merge    *)
(* that is draining comes to leave the drain.                              *)
(***************************************************************************)
C21_DrainTerminates == []TurnsBounded /\ ((pc = "drain") ~> (pc # "drain"))

C21_Witness ==
    /\ Succeeded
    /\ BatchKeys = {n_cyc_a, n_cyc_b}
    /\ Len(expanded) = 2
    /\ n_cyc_a \in Range(Result.packages[n_cyc_b].depends)

\* the draft map as the first scan leaves it: every batch package has
\* the names of its requirements that apply without an extra
AfterFirstScan ==
    [new_packages EXCEPT !.map =
        [k \in Keys(new_packages) |->
            [new_packages.map[k] EXCEPT
                !.depends = NamesOf(SelectSeq(RequirementsOf(k), Applicable))]]]

\* one order of a set of extras, the same for the same set
ReferenceOrder(extras) == CHOOSE o \in Orders(extras) : TRUE

\* the loop of lines 242-248 run to its end from a worklist and a draft
\* map, the extras of every requirement taken in the reference order
RECURSIVE DrainFrom(_, _)
DrainFrom(worklist, packages) ==
    IF worklist = <<>> THEN Outcome("", packages)
    ELSE LET extra_req == Last(worklist)
             target == ExtraTarget(extra_req)
             fixed == _fix_extra_dep(lock, extra_req,
                          ReferenceOrder(extra_req.extras), packages,
                          call.ignore_missing_dependencies)
         IN IF fixed.error # "" THEN Outcome(fixed.error, packages)
            ELSE DrainFrom(Front(worklist) \o fixed.extras,
                    IF target \in Keys(packages)
                    THEN [packages EXCEPT !.map[target].depends = fixed.depends]
                    ELSE packages)

ReferenceDrain == DrainFrom(WithExtrasFrom(1), AfterFirstScan)

(***************************************************************************)
(* C22.  The drain is order-independent: for a fixed batch, lockfile and   *)
(* environment, when the worklist is empty the depends of every batch      *)
(* package, as a set, is the one that the drain gives with the extras of   *)
(* every requirement taken in the reference order, whatever order their    *)
(* iteration gave in this run.                                             *)
(***************************************************************************)
C22_DrainOrderIndependent ==
    (pc = "drain" /\ requirements_with_extras = <<>>) =>
        /\ ReferenceDrain.error = ""
        /\ \A k \in BatchKeys :
              Range(new_packages.map[k].depends)
                  = Range(ReferenceDrain.value.map[k].depends)

(***************************************************************************)
(* C23.  The closure over the extras is complete.  After a successful      *)
(* merge: for every extra e that a requirement asks of a batch package P,  *)
(* the requirement applying in the first scan or under an extra asked of   *)
(* its own package in turn, every requirement of P whose marker is true    *)
(* with extra = e is in the depends of P, also when the requiring package  *)
(* depends on P through another requirement already.                       *)
(***************************************************************************)
C23_ExtrasClosureComplete ==
    Succeeded =>
        \A x \in Requests : x[1] \in BatchKeys =>
            \A q \in Range(RequirementsOf(x[1])) :
                ApplicableWith(q, x[2]) =>
                    canonicalize_name(q.name) \in Range(Result.packages[x[1]].depends)

\* the archive of an event of the log passes the compatibility check
PassesCheck(file) == _check_wheel_compatible(Path(TRUE, file), old.info) = ""

\* the number of events of one kind among the first n of the log
RECURSIVE CountOf(_, _)
CountOf(op, n) ==
    IF n = 0 THEN 0
    ELSE CountOf(op, n - 1) + (IF log[n].op = op THEN 1 ELSE 0)

(***************************************************************************)
(* C24.  The compatibility check comes first.  In every merge: the         *)
(* metadata of an archive is read, its hash computed and its requirements  *)
(* extracted only after its own check, and the check has passed; an        *)
(* archive that fails the check, or whose name does not parse, never has   *)
(* its metadata read; the requirements of no archive are extracted before  *)
(* every archive of the batch has been checked and has passed.             *)
(***************************************************************************)
C24_CheckBeforeExtraction ==
    \A i \in 1..Len(log) :
        /\ log[i].op # "check" =>
              /\ PassesCheck(log[i].file)
              /\ \E j \in 1..(i - 1) :
                    log[j].op = "check" /\ log[j].file = log[i].file
        /\ log[i].op = "requirements" =>
              /\ CountOf("check", i) = Len(call.wheel_files)
              /\ \A f \in Range(call.wheel_files) : PassesCheck(f.parts)

\* the second archive of a batch fails the check after the first was read;
\* nothing of the second is read and no requirements are extracted
C24_Witness ==
    /\ Failed
    /\ Len(call.wheel_files) = 2
    /\ Len(log) = 5
    /\ log[1].op = "check" /\ log[2].op = "metadata"
    /\ log[5].op = "check" /\ ~PassesCheck(log[5].file)

(***************************************************************************)
(* Merges in one process with archives rebuilt in between: the file at a   *)
(* path is replaced by another archive while no merge runs.                *)
(***************************************************************************)
\* the archive paths of these merges, one archive a call
CachePaths == {Path(TRUE, Dist \o <<F_py_one>>), Path(TRUE, Dist \o <<F_opt>>)}

\* the archives a path may come to hold
Rebuilds == {F_py_one, F_opt, F_wants_opt}

AddWheelsCached ==
    /\ pc = "idle"
    /\ merges < MaxMerges
    /\ \E api \in Apis, path \in CachePaths, ignore_missing_dependencies \in BOOLEAN :
          StartMerge(api, <<path>>, NoPath, <<>>, ignore_missing_dependencies)

\* between two merges the file at a path is replaced
ReplaceFile ==
    /\ pc = "idle"
    /\ merges > 0
    /\ \E path \in CachePaths, file \in Rebuilds :
          /\ ContentKey(path) # file
          /\ replaced' = [p \in DOMAIN replaced \cup {path} |->
                            IF p = path THEN file ELSE replaced[p]]
    /\ UNCHANGED <<lock, new_spec, call, pc, idx, new_packages,
                   requirements_with_extras, status, old, log, expanded, history,
                   arg, shared, ret, disk, io, cache, job>>

NextCache ==
    \/ AddWheelsCached
    \/ ReplaceFile
    \/ FromWheel
    \/ ScanNext
    \/ Drain
    \/ SetPackagePaths
    \/ MergeNewPackages
    \/ Return

SpecCache == Init /\ [][NextCache]_vars

\* C25: the metadata read during a merge is that of the file the path
\* holds at the time of this merge: the entry a merge builds from an archive
\* has the name and the version of the metadata in the file now, which is
\* the file the entry's sha256 is the hash of, and the requirements that are
\* resolved are those of that file
C25_MetadataOfThisMerge ==
    Succeeded =>
        \A i \in 1..Len(call.wheel_files) :
            LET path == call.wheel_files[i]
                now == get_metadata(path)
            IN /\ _wheel_metadata(path) = now
               /\ canonicalize_name(now.name) \in BatchKeys
               /\ LET entry == new_packages.map[canonicalize_name(now.name)]
                  IN /\ entry.version = now.version
                     /\ entry.sha256 = _generate_package_hash(path)

(***************************************************************************)
(* _get_marker_environment alone (utils.py, lines 105-129), outside        *)
(* pyodide, on descriptors that differ in each of the four fields.         *)
(***************************************************************************)
EnvPlatforms ==
    { InfoExample.platform, InfoOther.platform, <<"emscripten">>,
      <<"_", "3">>, <<"linux", "_", "_", "x86">> }

EnvInfos ==
    {InfoSpec(arch, platform, version, python) :
        arch \in {"wasm32", "wasm64"}, platform \in EnvPlatforms,
        version \in {"0.24.0.dev0", "0.27.0"},
        python \in {<<3, 11, 3>>, <<3, 12, 0>>, <<2, 7, 18>>, <<3>>}}

InitEnv ==
    /\ \E info \in EnvInfos :
          /\ arg = [info |-> info]
          /\ lock = [info |-> info, packages |-> PackagesExample]
    /\ MergeIdle
    /\ ret = Nothing
    /\ disk = Nothing
    /\ io = "closed"

GetMarkerEnvironment ==
    /\ ret = Nothing
    /\ ret' = _get_marker_environment(arg.info)
    /\ UNCHANGED <<merge_state, arg, disk, io>>

NextEnv == GetMarkerEnvironment

SpecEnv == InitEnv /\ [][NextEnv]_vars

\* the platform identifier has an underscore after a prefix that is not empty
HasPrefix(platform) ==
    /\ platform # <<>>
    /\ Head(platform) # "_"
    /\ "_" \in Range(platform)

\* the keys of the environment that the descriptor decides
Decided ==
    {"sys_platform", "platform_release", "python_version", "python_full_version",
     "implementation_version", "platform_machine"}

\* C26: outside pyodide the marker environment is a function of platform,
\* arch and python alone: a descriptor that differs in version only gives the
\* same environment; for a platform identifier prefix_suffix, sys_platform
\* is the prefix, which has no underscore, and platform_release is all that
\* follows the first underscore; python_version is major.minor of python;
\* python_full_version and implementation_version are python;
\* platform_machine is arch; the other keys are those of _PYODIDE_MARKER_ENV
C26_MarkerEnvironment ==
    ret # Nothing =>
        LET info == arg.info
        IN /\ \A other \in EnvInfos :
                  (/\ other.platform = info.platform
                   /\ other.arch = info.arch
                   /\ other.python = info.python)
                  => _get_marker_environment(other) = ret
           /\ HasPrefix(info.platform) =>
                  /\ ret.sys_platform \o <<"_">> \o ret.platform_release
                        = info.platform
                  /\ "_" \notin Range(ret.sys_platform)
           /\ ret.python_version = <<Major(info.python), Minor(info.python)>>
           /\ ret.python_full_version = info.python
           /\ ret.implementation_version = info.python
           /\ ret.platform_machine = <<info.arch>>
           /\ \A k \in (DOMAIN _PYODIDE_MARKER_ENV) \ Decided :
                  ret[k] = _PYODIDE_MARKER_ENV[k]

\* the environment of the example descriptor: emscripten and 3_1_39
C26_Witness ==
    /\ ret # Nothing
    /\ arg.info = InfoExample
    /\ ret.sys_platform = <<"emscripten">>
    /\ ret.platform_release = <<"3", "_", "1", "_", "39">>
    /\ ret.python_version = <<3, 11>>

(***************************************************************************)
(* The two merge functions on the same arguments: add_wheels_to_spec is    *)
(* called and its result kept, then add_wheels is called on the lockfile   *)
(* that was passed, with the same batch, base path, base URL and flag.     *)
(***************************************************************************)
BothBatches ==
    PathBatches \cup LinkedBatches
    \cup { <<>>,
           <<Path(TRUE, Dist \o <<F_needs_one>>)>>,
           <<Path(TRUE, Dist \o <<F_failure>>)>>,
           <<Path(TRUE, Dist \o <<F_py_one>>), Path(TRUE, Dist \o <<F_bad_name>>)>> }

AddWheelsToSpecFirst ==
    /\ pc = "idle"
    /\ merges = 0
    /\ \E wheel_files \in BothBatches, placement \in Placements,
          ignore_missing_dependencies \in BOOLEAN :
          StartMerge("add_wheels_to_spec", wheel_files, placement[1], placement[2],
                     ignore_missing_dependencies)

\* the caller keeps what add_wheels_to_spec returned or raised, and the
\* lockfile it passed; orders is the order in which this call went through
\* each set of extras
ReturnKept ==
    /\ pc = "done"
    /\ merges = 0
    /\ ret' = [error |-> status, value |-> new_spec, orders |-> expanded]
    /\ pc' = "idle"
    /\ merges' = 1
    /\ UNCHANGED <<lock, new_spec, call, idx, new_packages,
                   requirements_with_extras, status, old, log, expanded, origin,
                   overridden, arg, shared, disk, io, cache, replaced, job>>

AddWheelsSame ==
    /\ pc = "idle"
    /\ merges = 1
    /\ StartMerge("add_wheels", arg.wheel_files, arg.base_path, arg.base_url,
                  arg.ignore_missing_dependencies)

ReturnInPlace ==
    /\ merges = 1
    /\ Return

NextBoth ==
    \/ AddWheelsToSpecFirst
    \/ ReturnKept
    \/ AddWheelsSame
    \/ ReturnInPlace
    \/ FromWheel
    \/ ScanNext
    \/ Drain
    \/ SetPackagePaths
    \/ MergeNewPackages

SpecBoth == Init /\ [][NextBoth]_vars

\* add_wheels has ended, after add_wheels_to_spec on the same arguments
BothEnded == pc = "done" /\ merges = 1 /\ call.api = "add_wheels"

\* the two calls ran in one interpreter: a set of extras is gone through in
\* the same order in both (the order of a set of strings is fixed by the
\* hash seed of the process)
SameOrders ==
    \A e1 \in Range(ret.orders), e2 \in Range(expanded) :
        e1.req.extras = e2.req.extras => e1.extras_order = e2.extras_order

validate_depends_skipped(packages) == TRUE

\* validate_depends raises InvalidPyodideLockError unless this holds
validate_depends(packages) ==
    LET all_pkgs == {canonicalize_name(k) : k \in DOMAIN packages}
    IN \A pkg_name \in DOMAIN packages :
          {canonicalize_name(d) : d \in Range(packages[pkg_name].depends)}
              \subseteq all_pkgs

RECURSIVE RemoveExcludes(_, _)
\* "for exclude in map(canonicalize_name, self.excludes):
\*      self.remove_depends(exclude, lock_spec)"
RemoveExcludes(excludes, packages) ==
    IF excludes = <<>> THEN packages
    ELSE RemoveExcludes(Tail(excludes),
                        remove_depends(canonicalize_name(Head(excludes)), packages))

\* the excludes of a run, as the caller spells them
UpdateExcludes ==
    { <<>>, <<<<"P", "y", "_", "O", "n", "e">>>>, <<n_two>>,
      <<n_two, <<"P", "y", "_", "O", "n", "e">>>> }

\* the wheels a solver run may give, in wheel_dir
UpdateBatches ==
    { <<>>,
      <<Path(TRUE, Dist \o <<F_py_one>>)>>,
      <<Path(TRUE, Dist \o <<F_needs_one>>)>>,
      <<Path(TRUE, Dist \o <<F_needs_one>>), Path(TRUE, Dist \o <<F_py_one>>)>>,
      <<Path(TRUE, Dist \o <<F_twice>>)>>,
      <<Path(TRUE, Dist \o <<F_opt>>), Path(TRUE, Dist \o <<F_test_extra>>)>>,
      <<Path(TRUE, Dist \o <<F_failure>>)>>,
      <<Path(TRUE, Other \o <<F_py_one>>)>> }

\* output_path is input_path, or a path where there is no file yet
InitUpdate ==
    /\ lock \in InitialLocks
    /\ new_spec = lock
    /\ call = NoCall
    /\ pc = "idle"
    /\ idx = 0
    /\ new_packages = EmptyDict
    /\ requirements_with_extras = <<>>
    /\ status = ""
    /\ old = lock
    /\ log = <<>>
    /\ expanded = <<>>
    /\ merges = 0
    /\ origin = lock
    /\ overridden = FALSE
    /\ arg = NoCall
    /\ shared = NoSharing
    /\ ret = Nothing
    /\ io = "closed"
    /\ cache = <<>>
    /\ replaced = <<>>
    /\ \E excludes \in UpdateExcludes, output \in {"input", "other"} :
          job = [excludes |-> excludes, output |-> output,
                 before |-> IF output = "input" THEN lock ELSE Nothing,
                 wheels |-> <<>>, steps |-> <<>>]
    /\ disk = job.before

\* pylock_toml and fetch_new_wheels: uv exits with a code that is not zero
\* and PyLockError is raised, or the wheels of the solution are in wheel_dir
Solve ==
    /\ pc = "idle"
    /\ job.steps = <<>>
    /\ \/ /\ job' = [job EXCEPT !.steps = <<"solver failed">>]
          /\ ret' = Outcome("PyLockError", Nothing)
       \/ /\ \E new_wheels \in UpdateBatches :
                job' = [job EXCEPT !.wheels = new_wheels, !.steps = <<"solver ok">>]
          /\ ret' = ret
    /\ UNCHANGED <<lock, new_spec, call, pc, idx, new_packages,
                   requirements_with_extras, status, old, log, expanded, history,
                   arg, shared, disk, io, cache, replaced>>

\* add_wheels_to_spec(lock_spec, base_path=self.input_path.parent,
\*     wheel_files=new_wheels, ignore_missing_dependencies=bool(self.excludes))
CallMerge ==
    /\ pc = "idle"
    /\ job.steps = <<"solver ok">>
    /\ StartMerge("add_wheels_to_spec", job.wheels, Path(TRUE, Dist), <<>>,
                  job.excludes # <<>>)

\* add_wheels_to_spec returns new_spec, or its error ends _update
MergeEnds ==
    /\ pc = "done"
    /\ pc' = "idle"
    /\ IF status = "ok"
       THEN /\ job' = [job EXCEPT !.steps = Append(@, "merge ok")]
            /\ ret' = ret
       ELSE /\ job' = [job EXCEPT !.steps = Append(@, "merge failed")]
            /\ ret' = Outcome(status, Nothing)
    /\ UNCHANGED <<lock, new_spec, call, idx, new_packages,
                   requirements_with_extras, status, old, log, expanded, history,
                   arg, shared, disk, io, cache, replaced>>

\* postprocess_spec: the excludes are removed from the depends lists, then
\* validate_depends (preserve_url_prefixes is empty, its default)
Postprocess ==
    /\ pc = "idle"
    /\ job.steps = <<"solver ok", "merge ok">>
    /\ LET packages == RemoveExcludes(job.excludes, new_spec.packages)
       IN /\ new_spec' = [new_spec EXCEPT !.packages = packages]
          /\ IF validate_depends(packages)
             THEN /\ job' = [job EXCEPT
                               !.steps = @ \o <<"excludes removed", "validated">>]
                  /\ ret' = ret
             ELSE /\ job' = [job EXCEPT
                               !.steps = @ \o <<"excludes removed",
                                                "missing dependencies">>]
                  /\ ret' = Outcome("InvalidPyodideLockError", Nothing)
    /\ UNCHANGED <<lock, call, pc, idx, new_packages, requirements_with_extras,
                   status, old, log, expanded, history, arg, shared, disk, io,
                   cache, replaced>>

\* new_spec.to_json(path=output_path, indent=self.indent): the file is
\* opened for writing, which empties it, and the text is written, or the
\* serialization or the write raises
UpdateToJson ==
    /\ pc = "idle"
    /\ job.steps = <<"solver ok", "merge ok", "excludes removed", "validated">>
    /\ \/ /\ disk' = new_spec
          /\ job' = [job EXCEPT !.steps = Append(@, "written")]
          /\ ret' = Outcome("", new_spec)
       \/ /\ disk' = <<>>
          /\ job' = [job EXCEPT !.steps = Append(@, "write failed")]
          /\ ret' = Outcome("to_json raised", Nothing)
    /\ UNCHANGED <<lock, new_spec, call, pc, idx, new_packages,
                   requirements_with_extras, status, old, log, expanded, history,
                   arg, shared, io, cache, replaced>>

NextUpdate ==
    \/ Solve
    \/ CallMerge
    \/ FromWheel
    \/ ScanNext
    \/ Drain
    \/ SetPackagePaths
    \/ MergeNewPackages
    \/ MergeEnds
    \/ Postprocess
    \/ UpdateToJson

SpecUpdate == InitUpdate /\ [][NextUpdate]_vars

\* the steps that come before the write, in the order of _update
StepsBeforeWrite == <<"solver ok", "merge ok", "excludes removed", "validated">>

\* the steps whose failure ends _update
FailedSteps == {"solver failed", "merge failed", "missing dependencies"}

\* C28: _update touches the file at output_path only after the solver run
\* succeeded, the merge succeeded, the excludes were removed and
\* validate_depends passed, in this order; the lockfile it has written
\* has the canonical form of every name of every depends list among its
\* keys; and when the solver, the merge or the validation fails the file
\* at output_path is as it was before the run
C28_OutputOnlyAfterValidation ==
    /\ disk # job.before => IsPrefix(StepsBeforeWrite, job.steps)
    /\ (job.steps # <<>> /\ Last(job.steps) = "written") =>
          /\ IsPrefix(StepsBeforeWrite, job.steps)
          /\ \A k \in DOMAIN disk.packages :
                \A d \in Range(disk.packages[k].depends) :
                    canonicalize_name(d) \in DOMAIN disk.packages
    /\ (job.steps # <<>> /\ Last(job.steps) \in FailedSteps) => disk = job.before

\* a lockfile was written after an excluded name was taken out of the
\* depends of a new package
C28_Witness ==
    /\ job.steps # <<>>
    /\ Last(job.steps) = "written"
    /\ job.excludes # <<>>
    /\ \E k \in BatchKeys : new_packages.map[k].depends # disk.packages[k].depends

\* the entry of k as it was when postprocess_spec was called
BeforeExcludes(k) == IF k \in BatchKeys THEN new_packages.map[k] ELSE lock.packages[k]

\* the excludes of the run, canonical
Excluded == {canonicalize_name(e) : e \in Range(job.excludes)}

\* C29: after remove_depends, as postprocess_spec calls it for each
\* exclude, no depends list of the lockfile holds the excluded name, however
\* often the list held it; the other names of each list are kept in their
\* order, and every other field of every entry is as it was
C29_EveryOccurrenceRemoved ==
    (job.steps # <<>> /\ "excludes removed" \in Range(job.steps)) =>
        /\ DOMAIN new_spec.packages = DOMAIN lock.packages \cup BatchKeys
        /\ \A k \in DOMAIN new_spec.packages :
              /\ new_spec.packages[k].depends
                    = SelectSeq(BeforeExcludes(k).depends, LAMBDA d : d \notin Excluded)
              /\ [new_spec.packages[k] EXCEPT !.depends = <<>>]
                    = [BeforeExcludes(k) EXCEPT !.depends = <<>>]
        /\ new_spec.info = lock.info

(***************************************************************************)
(* Pep508Text.from_raw_specs (uv_pip_compile.py, lines 462-482), as        *)
(* requirements_in, constraints_txt and excludes_txt call it: with one or  *)
(* two lists of specs.  A spec is the sequence of its characters.          *)
(***************************************************************************)
MaxSpecs == 2

\* the characters a project name is made of
NameChars ==
    Range(UpperCase) \cup Range(LowerCase)
        \cup {"-", ".", "_", "0", "1", "2", "3", "4", "5", "6", "7", "8", "9"}

RECURSIVE req_name(_)
\* Requirement(spec).name: the name the spec starts with
req_name(spec) ==
    IF spec = <<>> \/ Head(spec) \notin NameChars THEN <<>>
    ELSE <<Head(spec)>> \o req_name(Tail(spec))

RECURSIVE InsertSorted(_, _)
InsertSorted(x, list) ==
    IF list = <<>> THEN <<x>>
    ELSE IF StrLess(x, Head(list)) THEN <<x>> \o list
    ELSE <<Head(list)>> \o InsertSorted(x, Tail(list))

RECURSIVE sorted(_)
\* sorted(spec_set): by code points
sorted(list) ==
    IF list = <<>> THEN <<>> ELSE InsertSorted(Head(list), sorted(Tail(list)))

RECURSIVE AddSpecsFirstWins(_, _, _)
\* faulty variant: a name that has a spec keeps it
AddSpecsFirstWins(specs, spec_set, exclude) ==
    IF spec_set = <<>> THEN specs
    ELSE LET spec == Head(spec_set)
             name == canonicalize_name(req_name(spec))
         IN AddSpecsFirstWins(
                IF name \in exclude \/ name \in DOMAIN specs THEN specs
                ELSE specs @@ (name :> spec),
                Tail(spec_set), exclude)

RECURSIVE AddSpecs(_, _, _)
\* "for spec in sorted(spec_set)": specs[name] = spec unless name is excluded
AddSpecs(specs, spec_set, exclude) ==
    IF spec_set = <<>> THEN specs
    ELSE LET spec == Head(spec_set)
             name == canonicalize_name(req_name(spec))
         IN AddSpecs(
                IF name \in exclude THEN specs
                ELSE [n \in DOMAIN specs \cup {name} |->
                        IF n = name THEN spec ELSE specs[n]],
                Tail(spec_set), exclude)

RECURSIVE from_raw_specs_first_wins(_, _)
\* faulty variant: the first spec of a name is kept
from_raw_specs_first_wins(raw_spec_sets, exclude) ==
    IF raw_spec_sets = <<>> THEN <<>>
    ELSE AddSpecsFirstWins(from_raw_specs_first_wins(Front(raw_spec_sets), exclude),
                           sorted(Last(raw_spec_sets)), exclude)

RECURSIVE from_raw_specs(_, _)
\* the dict specs of the instance: "for spec_set in raw_spec_sets"
from_raw_specs(raw_spec_sets, exclude) ==
    IF raw_spec_sets = <<>> THEN <<>>
    ELSE AddSpecs(from_raw_specs(Front(raw_spec_sets), exclude),
                  sorted(Last(raw_spec_sets)), exclude)

\* specs of two projects, one of them under two spellings
RawSpecs ==
    { <<"p", "y", "-", "o", "n", "e", ">", "=", "1">>,
      <<"P", "y", "_", "O", "n", "e">>,
      <<"n", "u", "m", "p", "y", "<", "2">>,
      <<"n", "u", "m", "p", "y", " ", "@", " ", "u">> }

SpecLists == SeqsUpTo(RawSpecs, MaxSpecs)

InitReqs ==
    /\ lock = LockExample
    /\ MergeIdle
    /\ \E raw_spec_sets \in {<<a>> : a \in SpecLists}
                               \cup {<<a, b>> : a \in SpecLists, b \in SpecLists},
          exclude \in {{}, {n_py_one}, {n_numpy}} :
          arg = [raw_spec_sets |-> raw_spec_sets, exclude |-> exclude]
    /\ ret = Nothing
    /\ disk = Nothing
    /\ io = "closed"

FromRawSpecs ==
    /\ ret = Nothing
    /\ ret' = [specs |-> from_raw_specs(arg.raw_spec_sets, arg.exclude)]
    /\ UNCHANGED <<merge_state, arg, disk, io>>

NextReqs == FromRawSpecs

SpecReqs == InitReqs /\ [][NextReqs]_vars

\* the canonical names the i-th list of the call mentions
Mentioned(i) ==
    {canonicalize_name(req_name(spec)) : spec \in Range(arg.raw_spec_sets[i])}

\* the last list of the call that mentions the name
LastMention(name) ==
    CHOOSE i \in 1..Len(arg.raw_spec_sets) :
        /\ name \in Mentioned(i)
        /\ \A j \in (i + 1)..Len(arg.raw_spec_sets) : name \notin Mentioned(j)

\* C30: from_raw_specs keeps one spec for each canonical name that some
\* list mentions and that is not excluded, and none for any other name; the
\* spec kept is a spec of that name from the last list that mentions the
\* name (of several there, the last in sorted order)
C30_LastSpecWins ==
    ret # Nothing =>
        /\ DOMAIN ret.specs
              = UNION {Mentioned(i) : i \in 1..Len(arg.raw_spec_sets)} \ arg.exclude
        /\ \A name \in DOMAIN ret.specs :
              LET of_name == {spec \in Range(arg.raw_spec_sets[LastMention(name)]) :
                                canonicalize_name(req_name(spec)) = name}
              IN /\ ret.specs[name] \in of_name
                 /\ \A spec \in of_name :
                       spec = ret.specs[name] \/ StrLess(spec, ret.specs[name])

\* a name is excluded, and another name has a spec in both lists: the spec
\* kept is the one of the second list
C30_Witness ==
    /\ ret # Nothing
    /\ Len(arg.raw_spec_sets) = 2
    /\ arg.exclude # {}
    /\ arg.exclude \cap Mentioned(1) # {}
    /\ \E name \in (Mentioned(1) \cap Mentioned(2)) \ arg.exclude :
          /\ ret.specs[name] \in Range(arg.raw_spec_sets[2])
          /\ ret.specs[name] \notin Range(arg.raw_spec_sets[1])
====
